---- MODULE Spec2Model ----
(***************************************************************************)
(* The repository-catalog caches of image-mapper (internal/mapper/repos.go)*)
(* as state machines: cachingRepoClient (in-memory, guarded by a lock) and *)
(* fileCachingRepoClient (repos.json on disk, no lock), each wrapping a    *)
(* delegate RepoClient that stamps FetchedAt when it returns.              *)
(***************************************************************************)
EXTENDS Integers, Sequences, FiniteSets, TLC

(***************************************************************************)
(* Bounds of the model.                                                    *)
(***************************************************************************)
\* goroutines calling ListRepos on the one decorator
NumCallers == 2
\* the clock runs from 0 to MaxTime
MaxTime == 3
\* cacheDuration is drawn from 0..MaxDuration
MaxDuration == 2
\* ListRepos calls issued in one behaviour, over all callers
MaxCalls == 3
\* ListRepos calls issued on the disk decorator in one behaviour
MaxFileCalls == 2
\* the cache file found at start was fetched at -PastAge..0
PastAge == 2

Callers == 1..NumCallers

(***************************************************************************)
(* Data: Go slices and pointers keep the nil / empty distinction.          *)
(***************************************************************************)
\* a nil []string
NilSlice == [nil |-> TRUE, elems |-> <<>>]

\* a non-nil []string holding s
Slice(s) == [nil |-> FALSE, elems |-> s]

\* type Repo struct: the fields the caches carry through
Repo(n, a) == [Name |-> n, Aliases |-> a]

\* type RepoList struct; mono: FetchedAt carries a monotonic clock reading
\* (time.Now() sets one, a time parsed from JSON has none)
RepoList(repos, t, m) == [Repos |-> repos, FetchedAt |-> t, mono |-> m]

\* a nil *RepoList
NilRepoList == [nil |-> TRUE]

\* a nil error
NoErr == "nil"

\* the (list, error) pair a ListRepos call returned; NoResult before it returns
Returned(list, err) == [list |-> list, err |-> err]
NoResult == [pending |-> TRUE]

\* a catalog answer with aliases of every shape: some, none, nil
FreshCatalog ==
    << Repo("fresh-nginx", Slice(<< "docker.io/nginx" >>)),
       Repo("redis", Slice(<< >>)),
       Repo("argo-cli", NilSlice) >>

\* what the catalog can answer: it changes between fetches
Catalogs == { << Repo("nginx", NilSlice) >>, FreshCatalog }

VARIABLES
    now,            \* the clock (time.Now)
    cacheDuration,  \* rc.cacheDuration
    pc,             \* pc[c]: where caller c is inside ListRepos
    result,         \* result[c]: what c's last ListRepos call returned
    issued,         \* ListRepos calls issued so far
    overlap,        \* a call was issued while another call was in progress
    callCount,      \* calls made to the delegate (countingRepoClient.callCount)
    delegateLog,    \* what the delegate returned to cachingRepoClient, call by call
    repoList,       \* cachingRepoClient.repoList
    lock,           \* cachingRepoClient.lock: the caller holding it, or 0
    dirExists,      \* rc.cacheDir exists
    dirCreated,     \* os.MkdirAll has created rc.cacheDir in this process
    file,           \* the content of repos.json in rc.cacheDir
    cachedList,     \* cachedList[c]: what getRepoList gave c's call that missed
    fetched,        \* fetched[c]: the local repoList of c's call between fetch and put
    stored,         \* the RepoList rc.repoList points to: the delegate call that made it, or 0
    held,           \* held[c]: the RepoList the pointer returned to c points to, likewise
    cpc,            \* where the caller of fixAliases / repoClient.ListRepos is
    reposArr,       \* the backing array of the []Repo handed to fixAliases
    strArrays,      \* the backing arrays of the []string slices, aliasesFixes' included
    origRepos,      \* what repos held, aliases followed, when the call was made
    onceRepos,      \* what the returned records held after the first fixAliases
    fixed,          \* the []Repo fixAliases returned (a slice header), or NoResult
    response,       \* the HTTP response repoClient.ListRepos got, or NoResult
    listed,         \* what repoClient.ListRepos returned, or NoResult
    hpc,            \* where the call of MapValues is
    input,          \* the bytes handed to MapValues
    inputValues,    \* MapValues' inputValues
    outputValues,   \* MapValues' outputValues
    walkStack,      \* the walkValues calls in progress, innermost last
    pathArrays,     \* the backing arrays of the path slices
    mapCalls,       \* the calls of m.Map: << key path of the field, image >>
    mapValuesResult, \* what MapValues returned, or NoResult
    hstep,          \* where handler is with the request it is serving
    request,        \* the *http.Request handler was called with, or NoResult
    httpErrors,     \* the status codes passed to httpError for it, in order
    rejected,       \* verifyAuth wrote an error for it
    lookups,        \* calls of resolveRepositoryName made for it
    copies,         \* calls of crane.Copy made for it: the tag copied
    served,         \* requests handed to handler so far
    mpc,            \* where the command that uses the mapper is
    command,        \* the command that ran, with its flags, or NoResult
    options,        \* the options NewMapper ended with
    catalog,        \* the catalog records the mapper matches against
    image,          \* the image handed to Map, or NoResult
    mapResult,      \* what Map returned for it, or NoResult
    dpc,            \* where the Dockerfile rewriter is
    dockerfile,     \* the lines of the Dockerfile handed to it
    lineNo,         \* the line it is at
    stages,         \* the stage aliases declared so far in this Dockerfile
    rewritten,      \* the lines written so far
    mapperArgs,     \* the calls of the mapper: << line number, reference >>
    declaredBefore, \* the stage aliases declared in the Dockerfiles before this one
    documents       \* Dockerfiles handed to the rewriter so far

\* which RepoList objects the pointers of the memory cache and of its callers point to
ownVars == << stored, held >>

\* the state of the catalog source and of alias correction
catVars == << cpc, reposArr, strArrays, origRepos, onceRepos, fixed, response, listed >>

\* the state of a call of MapValues
helmVars == << hpc, input, inputValues, outputValues, walkStack, pathArrays, mapCalls,
              mapValuesResult >>

\* the state of the push-event handler of image-copy-azure
azVars == << hstep, request, httpErrors, rejected, lookups, copies, served >>

\* the state of a command that uses the mapper
mapVars == << mpc, command, options, catalog, image, mapResult >>

\* the state of the Dockerfile rewriter
dfVars == << dpc, dockerfile, lineNo, stages, rewritten, mapperArgs, declaredBefore,
            documents >>

\* the state of the commands
cmdVars == << azVars, mapVars, dfVars >>

vars == << now, cacheDuration, pc, result, issued, overlap, callCount, delegateLog,
           repoList, lock, dirExists, dirCreated, file, cachedList, fetched,
           ownVars, catVars, helmVars, cmdVars >>

\* the state of the in-memory decorator, and of the disk decorator
memVars == << repoList, lock >>
fileVars == << dirExists, dirCreated, file, cachedList, fetched >>

NoOne == 0

\* some call other than c's is in progress
Busy(c) == \E d \in Callers \ {c} : pc[d] # "idle"

(***************************************************************************)
(* The delegate: RepoClient.ListRepos, here repoClient.ListRepos.          *)
(***************************************************************************)
\* the outcomes of one delegate call that returns at time t, the catalog
\* answering one of cats: an error (request failed, status not 200, body not
\* decoded) or the decoded list stamped with time.Now()
DelegateOutcomes(t, cats) ==
    { Returned(NilRepoList, "delegate error") }
        \cup { Returned(RepoList(repos, t, TRUE), NoErr) : repos \in cats }

\* time passes
Tick ==
    /\ now < MaxTime
    /\ now' = now + 1
    /\ UNCHANGED << cmdVars, cacheDuration, pc, result, issued, overlap, callCount,
                    delegateLog, memVars, fileVars, ownVars, catVars, helmVars >>

(***************************************************************************)
(* cachingRepoClient                                                       *)
(***************************************************************************)
\* rc.repoList != nil && time.Since(rc.repoList.FetchedAt) < rc.cacheDuration
IsFreshMutant(list, t, d) == list # NilRepoList /\ t - list.FetchedAt <= d
IsFresh(list, t, d) == list # NilRepoList /\ t - list.FetchedAt < d

\* rc.lock.Lock() can return for a caller
CanLockMutant == TRUE
CanLock == lock = NoOne

\* rc.repoList = repoList, after a fetch that succeeded
StoredMutant(old, new) == old
Stored(old, new) == new

\* what a failed fetch leaves in rc.repoList: the early return touches nothing
AfterFailureMutant(list) == NilRepoList
AfterFailure(list) == list

\* a caller issues ListRepos and blocks in rc.lock.Lock()
MemCall(c) ==
    /\ pc[c] = "idle"
    /\ issued < MaxCalls
    /\ issued' = issued + 1
    /\ overlap' = (overlap \/ Busy(c))
    /\ pc' = [pc EXCEPT ![c] = "waiting"]
    /\ result' = [result EXCEPT ![c] = NoResult]
    /\ held' = [held EXCEPT ![c] = 0]
    /\ UNCHANGED << cmdVars, now, cacheDuration, callCount, delegateLog, memVars, fileVars,
                    stored, catVars, helmVars >>

\* Lock() returns; the freshness check either returns the stored list (and the
\* deferred Unlock runs) or goes on to call the delegate, lock held
MemEnterMutant(c) ==
    /\ pc[c] = "waiting"
    /\ CanLock
    /\ IF IsFresh(repoList, now, cacheDuration)
       THEN /\ result' = [result EXCEPT ![c] = Returned(repoList, NoErr)]
            /\ held' = [held EXCEPT ![c] = stored]
            /\ pc' = [pc EXCEPT ![c] = "idle"]
            /\ lock' = c
            /\ UNCHANGED callCount
       ELSE /\ pc' = [pc EXCEPT ![c] = "fetching"]
            /\ lock' = c
            /\ callCount' = callCount + 1
            /\ UNCHANGED << result, held >>
    /\ UNCHANGED << cmdVars, now, cacheDuration, issued, overlap, delegateLog, repoList,
                    fileVars, stored, catVars, helmVars >>
MemEnter(c) ==
    /\ pc[c] = "waiting"
    /\ CanLock
    /\ IF IsFresh(repoList, now, cacheDuration)
       THEN /\ result' = [result EXCEPT ![c] = Returned(repoList, NoErr)]
            /\ held' = [held EXCEPT ![c] = stored]
            /\ pc' = [pc EXCEPT ![c] = "idle"]
            /\ lock' = NoOne
            /\ UNCHANGED callCount
       ELSE /\ pc' = [pc EXCEPT ![c] = "fetching"]
            /\ lock' = c
            /\ callCount' = callCount + 1
            /\ UNCHANGED << result, held >>
    /\ UNCHANGED << cmdVars, now, cacheDuration, issued, overlap, delegateLog, repoList,
                    fileVars, stored, catVars, helmVars >>

\* the delegate returns: an error is handed on, a list is stored and returned;
\* the deferred Unlock runs either way
MemFetchReturnMutant(c) ==
    /\ pc[c] = "fetching"
    /\ \E out \in DelegateOutcomes(now, Catalogs) :
        /\ delegateLog' = Append(delegateLog, out)
        /\ IF out.err # NoErr
           THEN /\ result' = [result EXCEPT ![c] = Returned(NilRepoList, out.err)]
                /\ repoList' = RepoList(<< >>, now, TRUE)
                /\ UNCHANGED ownVars
           ELSE /\ repoList' = Stored(repoList, out.list)
                /\ result' = [result EXCEPT ![c] = Returned(out.list, NoErr)]
                /\ stored' = Len(delegateLog')
                /\ held' = [held EXCEPT ![c] = Len(delegateLog')]
    /\ pc' = [pc EXCEPT ![c] = "idle"]
    /\ lock' = NoOne
    /\ UNCHANGED << cmdVars, now, cacheDuration, issued, overlap, callCount, fileVars,
                    catVars, helmVars >>
MemFetchReturn(c) ==
    /\ pc[c] = "fetching"
    /\ \E out \in DelegateOutcomes(now, Catalogs) :
        /\ delegateLog' = Append(delegateLog, out)
        /\ IF out.err # NoErr
           THEN /\ result' = [result EXCEPT ![c] = Returned(NilRepoList, out.err)]
                /\ repoList' = AfterFailure(repoList)
                /\ UNCHANGED ownVars
           ELSE /\ repoList' = Stored(repoList, out.list)
                /\ result' = [result EXCEPT ![c] = Returned(out.list, NoErr)]
                /\ stored' = Len(delegateLog')
                /\ held' = [held EXCEPT ![c] = Len(delegateLog')]
    /\ pc' = [pc EXCEPT ![c] = "idle"]
    /\ lock' = NoOne
    /\ UNCHANGED << cmdVars, now, cacheDuration, issued, overlap, callCount, fileVars,
                    catVars, helmVars >>

\* no call has been made to fixAliases or to repoClient.ListRepos
CatIdle ==
    /\ cpc = "unused"
    /\ reposArr = << >>
    /\ strArrays = << >>
    /\ origRepos = << >>
    /\ onceRepos = << >>
    /\ fixed = NoResult
    /\ response = NoResult
    /\ listed = NoResult

\* MapValues is not in use
HelmIdle ==
    /\ hpc = "unused"
    /\ input = NoResult
    /\ inputValues = << >>
    /\ outputValues = << >>
    /\ walkStack = << >>
    /\ pathArrays = << >>
    /\ mapCalls = {}
    /\ mapValuesResult = NoResult

\* handler is serving no request
AzIdle ==
    /\ hstep = "idle"
    /\ request = NoResult
    /\ httpErrors = << >>
    /\ rejected = FALSE
    /\ lookups = 0
    /\ copies = << >>
    /\ served = 0

\* no mapper has been made
MapIdle ==
    /\ mpc = "idle"
    /\ command = NoResult
    /\ options = NoResult
    /\ catalog = << >>
    /\ image = NoResult
    /\ mapResult = NoResult

\* no Dockerfile has been handed to the rewriter
DfIdle ==
    /\ dpc = "idle"
    /\ dockerfile = << >>
    /\ lineNo = 0
    /\ stages = {}
    /\ rewritten = << >>
    /\ mapperArgs = {}
    /\ declaredBefore = {}
    /\ documents = 0

\* no command is in use
CmdIdle ==
    /\ AzIdle
    /\ MapIdle
    /\ DfIdle

\* what every behaviour starts from: the clock, the callers, the counters
CommonInit ==
    /\ CmdIdle
    /\ CatIdle
    /\ stored = 0
    /\ held = [c \in Callers |-> 0]
    /\ HelmIdle
    /\ now = 0
    /\ cacheDuration \in 0..MaxDuration
    /\ pc = [c \in Callers |-> "idle"]
    /\ result = [c \in Callers |-> NoResult]
    /\ issued = 0
    /\ overlap = FALSE
    /\ callCount = 0
    /\ delegateLog = << >>
    /\ repoList = NilRepoList
    /\ lock = NoOne
    /\ cachedList = [c \in Callers |-> NilRepoList]
    /\ fetched = [c \in Callers |-> NilRepoList]
    /\ dirCreated = FALSE

\* a caller writes through the *RepoList a call returned to it: it replaces
\* the aliases of the first record.  The write is to the one RepoList object,
\* which every pointer to it shows.
CallerModifies(c) ==
    /\ pc[c] = "idle"
    /\ held[c] # 0
    /\ result[c].list.Repos # << >>
    /\ result[c].list.Repos[1].Aliases # Slice(<< "changed" >>)
    /\ LET written == [result[c].list EXCEPT !.Repos[1].Aliases = Slice(<< "changed" >>)]
       IN  /\ result' = [d \in Callers |->
                            IF held[d] = held[c] THEN Returned(written, NoErr)
                            ELSE result[d]]
           /\ repoList' = IF stored = held[c] THEN written ELSE repoList
    /\ UNCHANGED << cmdVars, now, cacheDuration, pc, issued, overlap, callCount, delegateLog,
                    lock, fileVars, ownVars, catVars, helmVars >>

\* NewCachingRepoClient: no list stored, lock free; the disk is not involved
MemInit ==
    /\ CommonInit
    /\ dirExists = FALSE
    /\ file = [kind |-> "absent"]

MemNext ==
    \/ \E c \in Callers : MemCall(c)
    \/ \E c \in Callers : MemEnter(c)
    \/ \E c \in Callers : MemFetchReturn(c)
    \/ Tick

SpecMem == MemInit /\ [][MemNext]_vars

\* the memory cache when every caller is scheduled: a caller blocked in
\* Lock() gets the lock if it is free again and again (sync.RWMutex hands the
\* lock to waiters), and a delegate call in progress returns; the cache
\* duration is one tick, which has hits and misses both happen
MemFairInit == MemInit /\ cacheDuration = 1

SpecMemFair ==
    /\ MemFairInit
    /\ [][MemNext]_vars
    /\ \A c \in Callers : SF_vars(MemEnter(c)) /\ WF_vars(MemFetchReturn(c))

\* the memory cache with callers that write to what they were handed
OwnNext ==
    \/ MemNext
    \/ \E c \in Callers : CallerModifies(c)

SpecOwn == MemInit /\ [][OwnNext]_vars

(***************************************************************************)
(* fileCachingRepoClient                                                   *)
(***************************************************************************)
\* repos.json: not there; there but ReadFile fails (permissions, a directory);
\* bytes that are not JSON (b: "" after a truncation); the JSON of a RepoList
AbsentFile == [kind |-> "absent"]
UnreadableFile == [kind |-> "unreadable"]
InvalidFile(b) == [kind |-> "invalid", bytes |-> b]
JsonFile(repos, t) == [kind |-> "json", repos |-> repos, fetchedAt |-> t]

\* json.Marshal of a []string: null for a nil slice, an array otherwise
jsonSliceMutant(a) == [null |-> FALSE, items |-> a.elems]
jsonSlice(a) == [null |-> a.nil, items |-> a.elems]

\* json.Marshal(repoList): the json tags name the fields; FetchedAt is written
\* as an RFC 3339 instant, which drops the monotonic clock reading
jsonMarshal(list) ==
    JsonFile([i \in DOMAIN list.Repos |->
                [name |-> list.Repos[i].Name,
                 aliases |-> jsonSlice(list.Repos[i].Aliases)]],
             list.FetchedAt)

\* json.Unmarshal(cacheData, &repoList) of bytes that are JSON
jsonUnmarshalMutant(f) ==
    RepoList([i \in DOMAIN f.repos |-> Repo(f.repos[i].name, NilSlice)],
             f.fetchedAt, FALSE)
jsonUnmarshal(f) ==
    RepoList([i \in DOMAIN f.repos |->
                Repo(f.repos[i].name,
                     IF f.repos[i].aliases.null THEN NilSlice
                     ELSE Slice(f.repos[i].aliases.items))],
             f.fetchedAt, FALSE)

errNotFoundInCache == "not found in cache"

\* rc.getRepoList: the list read from repos.json, or why there is none
getRepoListMutant(f) ==
    IF f.kind = "json" THEN Returned(jsonUnmarshal(f), NoErr)
    ELSE Returned(NilRepoList, errNotFoundInCache)
getRepoList(f) ==
    IF f.kind = "absent" THEN Returned(NilRepoList, errNotFoundInCache)
    ELSE IF f.kind = "unreadable" THEN Returned(NilRepoList, "reading file")
    ELSE IF f.kind = "invalid" THEN Returned(NilRepoList, "unmarshaling data")
    ELSE Returned(jsonUnmarshal(f), NoErr)

\* cachedList != nil && time.Since(cachedList.FetchedAt) < rc.cacheDuration
FileIsFreshMutant(list, t, d) == list # NilRepoList
FileIsFresh(list, t, d) == list # NilRepoList /\ t - list.FetchedAt < d

\* what ListRepos returns when rc.putRepoList fails after a fetch of list
OnPutErrorMutant(list, err) == Returned(list, NoErr)
OnPutError(list, err) == Returned(NilRepoList, err)

\* caller c returns r from ListRepos
FileReturn(c, r) ==
    /\ result' = [result EXCEPT ![c] = r]
    /\ pc' = [pc EXCEPT ![c] = "idle"]
    /\ fetched' = [fetched EXCEPT ![c] = NilRepoList]

\* a caller issues ListRepos
FileCall(c) ==
    /\ pc[c] = "idle"
    /\ issued < MaxFileCalls
    /\ issued' = issued + 1
    /\ pc' = [pc EXCEPT ![c] = "reading"]
    /\ result' = [result EXCEPT ![c] = NoResult]
    /\ cachedList' = [cachedList EXCEPT ![c] = NilRepoList]
    /\ UNCHANGED << cmdVars, now, cacheDuration, overlap, callCount, delegateLog, memVars,
                    dirExists, dirCreated, file, fetched, ownVars, catVars, helmVars >>

\* getRepoList reads the file: a read or parse error is returned, a fresh list
\* is returned, anything else (no file, an expired list) calls the delegate
FileEnter(c) ==
    /\ pc[c] = "reading"
    /\ LET got == getRepoList(file)
       IN  IF got.err # NoErr /\ got.err # errNotFoundInCache
           THEN /\ FileReturn(c, Returned(NilRepoList, got.err))
                /\ UNCHANGED << callCount, cachedList >>
           ELSE IF FileIsFresh(got.list, now, cacheDuration)
           THEN /\ FileReturn(c, Returned(got.list, NoErr))
                /\ UNCHANGED << callCount, cachedList >>
           ELSE /\ pc' = [pc EXCEPT ![c] = "fetching"]
                /\ cachedList' = [cachedList EXCEPT ![c] = got.list]
                /\ callCount' = callCount + 1
                /\ UNCHANGED << result, fetched >>
    /\ UNCHANGED << cmdVars, now, cacheDuration, issued, overlap, delegateLog, memVars,
                    dirExists, dirCreated, file, ownVars, catVars, helmVars >>

\* the delegate returns: an error is handed on, a list goes to putRepoList
FileFetchReturnRemoves(c) ==
    /\ pc[c] = "fetching"
    /\ \E out \in DelegateOutcomes(now, {FreshCatalog}) :
        /\ delegateLog' = Append(delegateLog, out)
        /\ IF out.err # NoErr
           THEN /\ FileReturn(c, Returned(NilRepoList, out.err))
                /\ file' = AbsentFile
           ELSE /\ fetched' = [fetched EXCEPT ![c] = out.list]
                /\ pc' = [pc EXCEPT ![c] = "putting"]
                /\ UNCHANGED << result, file >>
    /\ UNCHANGED << cmdVars, now, cacheDuration, issued, overlap, callCount, memVars,
                    dirExists, dirCreated, cachedList, ownVars, catVars, helmVars >>
FileFetchReturnMutant(c) ==
    /\ pc[c] = "fetching"
    /\ \E out \in DelegateOutcomes(now, {FreshCatalog}) :
        /\ delegateLog' = Append(delegateLog, out)
        /\ IF out.err # NoErr
           THEN FileReturn(c, IF cachedList[c] = NilRepoList
                              THEN Returned(NilRepoList, out.err)
                              ELSE Returned(cachedList[c], NoErr))
           ELSE /\ fetched' = [fetched EXCEPT ![c] = out.list]
                /\ pc' = [pc EXCEPT ![c] = "putting"]
                /\ UNCHANGED result
    /\ UNCHANGED << cmdVars, now, cacheDuration, issued, overlap, callCount, memVars,
                    dirExists, dirCreated, file, cachedList, ownVars, catVars, helmVars >>
FileFetchReturn(c) ==
    /\ pc[c] = "fetching"
    /\ \E out \in DelegateOutcomes(now, {FreshCatalog}) :
        /\ delegateLog' = Append(delegateLog, out)
        /\ IF out.err # NoErr
           THEN FileReturn(c, Returned(NilRepoList, out.err))
           ELSE /\ fetched' = [fetched EXCEPT ![c] = out.list]
                /\ pc' = [pc EXCEPT ![c] = "putting"]
                /\ UNCHANGED result
    /\ UNCHANGED << cmdVars, now, cacheDuration, issued, overlap, callCount, memVars,
                    dirExists, dirCreated, file, cachedList, ownVars, catVars, helmVars >>

\* putRepoList up to the opening of the file: os.MkdirAll, then os.WriteFile
\* opens repos.json with O_CREATE|O_TRUNC, which empties it; either can fail
FilePutOpen(c) ==
    /\ pc[c] = "putting"
    /\ \/ /\ ~dirExists
          /\ FileReturn(c, OnPutError(fetched[c], "creating cache directory"))
          /\ UNCHANGED << dirExists, dirCreated, file >>
       \/ /\ dirExists' = TRUE
          /\ dirCreated' = (dirCreated \/ ~dirExists)
          /\ FileReturn(c, OnPutError(fetched[c], "writing cache file"))
          /\ UNCHANGED file
       \/ /\ dirExists' = TRUE
          /\ dirCreated' = (dirCreated \/ ~dirExists)
          /\ file' = InvalidFile("")
          /\ pc' = [pc EXCEPT ![c] = "writing"]
          /\ UNCHANGED << result, fetched >>
    /\ UNCHANGED << cmdVars, now, cacheDuration, issued, overlap, callCount, delegateLog,
                    memVars, cachedList, ownVars, catVars, helmVars >>

\* what one f.Write(data) at offset 0 can leave in a file holding old: data,
\* or, when another descriptor has written longer bytes since this one emptied
\* the file, data followed by the tail of those bytes
AfterWrite(old, data) ==
    IF old = InvalidFile("") THEN { data } ELSE { data, InvalidFile("torn") }

\* os.WriteFile writes the marshalled list and closes; a failed write leaves
\* what is there
FilePutWrite(c) ==
    /\ pc[c] = "writing"
    /\ \/ /\ file' \in AfterWrite(file, jsonMarshal(fetched[c]))
          /\ FileReturn(c, Returned(fetched[c], NoErr))
       \/ /\ FileReturn(c, OnPutError(fetched[c], "writing cache file"))
          /\ UNCHANGED file
    /\ UNCHANGED << cmdVars, now, cacheDuration, issued, overlap, callCount, delegateLog,
                    memVars, dirExists, dirCreated, cachedList, ownVars, catVars, helmVars >>

\* the records of a cache file left by an earlier process
CachedCatalog ==
    << Repo("cached-nginx", Slice(<< "nginx" >>)), Repo("cached-redis", NilSlice) >>

\* what a new process can find on disk: no directory, or a directory with no
\* file, an unreadable file, a file that is not JSON, or an earlier snapshot
FileInit ==
    /\ CommonInit
    /\ \/ dirExists = FALSE /\ file = AbsentFile
       \/ /\ dirExists = TRUE
          /\ file \in { AbsentFile, UnreadableFile, InvalidFile("invalid json") }
                        \cup { jsonMarshal(RepoList(CachedCatalog, t, TRUE)) :
                                 t \in (0 - PastAge)..0 }

FileNext ==
    \/ \E c \in Callers : FileCall(c)
    \/ \E c \in Callers : FileEnter(c)
    \/ \E c \in Callers : FileFetchReturn(c)
    \/ \E c \in Callers : FilePutOpen(c)
    \/ \E c \in Callers : FilePutWrite(c)
    \/ Tick

SpecFile == FileInit /\ [][FileNext]_vars

(***************************************************************************)
(* cachingRepoClient over a delegate that is itself a cache: a             *)
(* fileCachingRepoClient whose file is fresh for its own, longer, duration *)
(* returns the list it read, with the FetchedAt the file holds.            *)
(***************************************************************************)

\* what such a delegate returns at time t: a list read from repos.json that
\* was fetched some time ago
CachedOutcomes(t) ==
    { getRepoList(jsonMarshal(RepoList(CachedCatalog, t - a, TRUE))) : a \in 1..PastAge }

\* the delegate returns a list it had cached: it is stored and returned as
\* any list is, and the deferred Unlock runs
MemFetchReturnRestamps(c) ==
    /\ pc[c] = "fetching"
    /\ \E out \in CachedOutcomes(now) :
        /\ delegateLog' = Append(delegateLog, out)
        /\ repoList' = [out.list EXCEPT !.FetchedAt = now]
        /\ result' = [result EXCEPT ![c] = Returned(repoList', NoErr)]
        /\ stored' = Len(delegateLog')
        /\ held' = [held EXCEPT ![c] = Len(delegateLog')]
    /\ pc' = [pc EXCEPT ![c] = "idle"]
    /\ lock' = NoOne
    /\ UNCHANGED << cmdVars, now, cacheDuration, issued, overlap, callCount, fileVars,
                    catVars, helmVars >>
MemFetchReturnCached(c) ==
    /\ pc[c] = "fetching"
    /\ \E out \in CachedOutcomes(now) :
        /\ delegateLog' = Append(delegateLog, out)
        /\ repoList' = Stored(repoList, out.list)
        /\ result' = [result EXCEPT ![c] = Returned(out.list, NoErr)]
        /\ stored' = Len(delegateLog')
        /\ held' = [held EXCEPT ![c] = Len(delegateLog')]
    /\ pc' = [pc EXCEPT ![c] = "idle"]
    /\ lock' = NoOne
    /\ UNCHANGED << cmdVars, now, cacheDuration, issued, overlap, callCount, fileVars,
                    catVars, helmVars >>

ChainNext ==
    \/ MemNext
    \/ \E c \in Callers : MemFetchReturnCached(c)

\* the memory decorator's duration is one tick, shorter than the age of what
\* the delegate has cached
ChainInit == MemInit /\ cacheDuration = 1

SpecChain == ChainInit /\ [][ChainNext]_vars

(***************************************************************************)
(* Alias correction (fixAliases) and the catalog source (repoClient).      *)
(* A []string is a slice header over a backing array, so that two headers  *)
(* over one array are seen to share it.                                    *)
(***************************************************************************)
\* records in the list handed to fixAliases
MaxRecords == 2

\* type Repo with its catalog tier, the field next to the aliases
RepoOf(n, tier, a) == [Name |-> n, CatalogTier |-> tier, Aliases |-> a]

\* a []string header: nil, or n elements of the backing array id
NilSliceRef == [nil |-> TRUE]
SliceRef(id, n) == [nil |-> FALSE, arr |-> id, len |-> n]

\* the elements a header shows, the arrays being arrs
Deref(ref, arrs) ==
    IF ref.nil THEN NilSlice ELSE Slice(SubSeq(arrs[ref.arr], 1, ref.len))

\* the records rs with every aliases header followed
DeepRepos(rs, arrs) ==
    [i \in DOMAIN rs |->
        RepoOf(rs[i].Name, rs[i].CatalogTier, Deref(rs[i].Aliases, arrs))]

\* var aliasesFixes: two of its entries, one with no aliases, one with one
aliasesFixes ==
    << [name |-> "argocd-repo-server", aliases |-> << >>],
       [name |-> "argo-cli", aliases |-> << "quay.io/argoproj/argocli" >>] >>

\* the backing arrays of the values of aliasesFixes, and the header of entry f
FixArrays == [id \in { << "table", f >> : f \in DOMAIN aliasesFixes } |->
                aliasesFixes[id[2]].aliases]
FixRef(f) == SliceRef(<< "table", f >>, Len(aliasesFixes[f].aliases))

\* the entries of aliasesFixes whose key is n: one or none, the keys of a map
\* being distinct
FixesFor(n) == { f \in DOMAIN aliasesFixes : aliasesFixes[f].name = n }

\* fixAliases(repos): every record whose name is a key of aliasesFixes gets
\* the header of the table's value, in place; the arrays are not touched and
\* the slice handed in is the slice returned
fixAliasesMutant(rs, arrs) ==
    [repos |-> [i \in DOMAIN rs |->
                  IF FixesFor(rs[i].Name) # {}
                        /\ aliasesFixes[CHOOSE f \in FixesFor(rs[i].Name) : TRUE].aliases # << >>
                  THEN [rs[i] EXCEPT !.Aliases =
                            FixRef(CHOOSE f \in FixesFor(rs[i].Name) : TRUE)]
                  ELSE rs[i]],
     arrays |-> arrs]
fixAliasesAppends(rs, arrs) ==
    LET hit == { i \in DOMAIN rs : FixesFor(rs[i].Name) # {} }
        add(i) == aliasesFixes[CHOOSE f \in FixesFor(rs[i].Name) : TRUE].aliases
        grown(i) == Deref(rs[i].Aliases, arrs).elems \o add(i)
    IN  [repos |-> [i \in DOMAIN rs |->
                      IF i \in hit
                      THEN [rs[i] EXCEPT !.Aliases =
                                SliceRef(<< "grown", i >>, Len(grown(i)))]
                      ELSE rs[i]],
         arrays |-> [id \in { << "grown", i >> : i \in hit } |-> grown(id[2])]
                        @@ arrs]
fixAliases(rs, arrs) ==
    [repos |-> [i \in DOMAIN rs |->
                  IF FixesFor(rs[i].Name) # {}
                  THEN [rs[i] EXCEPT !.Aliases =
                            FixRef(CHOOSE f \in FixesFor(rs[i].Name) : TRUE)]
                  ELSE rs[i]],
     arrays |-> arrs]

\* the []Repo header fixAliases returns: the caller's own array, all of it
ReturnedSlice(rs) == [arr |-> "repos", len |-> Len(rs)]

\* the record lists of the model: names in and out of the table, aliases nil,
\* empty, wrong, and already right
InputNames == { "argocd-repo-server", "argo-cli", "nginx" }
InputAliases ==
    { NilSlice, Slice(<< >>), Slice(<< "wrong-alias" >>) }
TierOf(n) == IF n = "nginx" THEN "APPLICATION" ELSE "PREMIUM"
InputRecords == { RepoOf(n, TierOf(n), a) : n \in InputNames, a \in InputAliases }
InputLists == UNION { [1..k -> InputRecords] : k \in 0..MaxRecords }

\* the records of in laid out in memory: one backing array per non-nil aliases
HeapRepos(in) ==
    [i \in DOMAIN in |->
        RepoOf(in[i].Name, in[i].CatalogTier,
               IF in[i].Aliases.nil THEN NilSliceRef
               ELSE SliceRef(<< "input", i >>, Len(in[i].Aliases.elems)))]
HeapArrays(in) ==
    [id \in { << "input", i >> : i \in { j \in DOMAIN in : ~in[j].Aliases.nil } } |->
        in[id[2]].Aliases.elems] @@ FixArrays

\* a caller calls fixAliases(repos)
FixCall ==
    /\ cpc = "start"
    /\ LET r == fixAliases(reposArr, strArrays)
       IN  /\ reposArr' = r.repos
           /\ strArrays' = r.arrays
           /\ fixed' = ReturnedSlice(r.repos)
           /\ onceRepos' = DeepRepos(r.repos, r.arrays)
    /\ cpc' = "fixed"
    /\ UNCHANGED << cmdVars, now, cacheDuration, pc, result, issued, overlap, callCount,
                    delegateLog, memVars, fileVars, ownVars, origRepos, response, listed,
                    helmVars >>

\* the caller hands what fixAliases returned to fixAliases again
FixAgain ==
    /\ cpc = "fixed"
    /\ LET r == fixAliases(reposArr, strArrays)
       IN  /\ reposArr' = r.repos
           /\ strArrays' = r.arrays
           /\ fixed' = ReturnedSlice(r.repos)
    /\ cpc' = "fixedTwice"
    /\ UNCHANGED << cmdVars, now, cacheDuration, pc, result, issued, overlap, callCount,
                    delegateLog, memVars, fileVars, ownVars, origRepos, onceRepos, response,
                    listed,
                    helmVars >>

\* the caller assigns to an element of the aliases of a record it was handed:
\* fixed[i].Aliases[j] = "changed"
CallerWrite ==
    /\ cpc \in { "fixed", "fixedTwice", "listed" }
    /\ fixed # NoResult
    /\ \E i \in 1..fixed.len :
        /\ ~reposArr[i].Aliases.nil
        /\ \E j \in 1..reposArr[i].Aliases.len :
            strArrays' = [strArrays EXCEPT ![reposArr[i].Aliases.arr][j] = "changed"]
    /\ cpc' = "written"
    /\ UNCHANGED << cmdVars, now, cacheDuration, pc, result, issued, overlap, callCount,
                    delegateLog, memVars, fileVars, ownVars, reposArr, origRepos, onceRepos,
                    fixed, response, listed,
                    helmVars >>

\* http.StatusOK
StatusOK == 200

\* what c.Do(req) can give: no response (the request failed), or a status and
\* a body.  The bodies: the JSON document of the catalog; that document with
\* bytes after it; a JSON object with no data.repos; JSON of another shape;
\* bytes that are not JSON; nothing; the document cut short
NoResponse == [failed |-> TRUE]
Statuses == { 200, 201, 404, 500 }
Bodies == { "catalog", "catalog and trailing bytes", "no repos", "wrong shape",
            "not json", "empty", "truncated" }
Responses == { NoResponse } \cup { [status |-> st, body |-> b] : st \in Statuses, b \in Bodies }

\* json.NewDecoder(resp.Body).Decode(&data): Decode reads the first JSON value
\* of the stream and stops there; rs are the records the catalog document
\* carries
Decode(body, rs) ==
    IF body \in { "catalog", "catalog and trailing bytes" } THEN [err |-> NoErr, repos |-> rs]
    ELSE IF body = "no repos" THEN [err |-> NoErr, repos |-> << >>]
    ELSE [err |-> "unmarshaling body", repos |-> << >>]

\* repoClient.ListRepos: the request, the status check, the decoding, then
\* fixAliases on the decoded records and the stamp of time.Now()
RepoClientListRepos ==
    /\ cpc = "start"
    /\ \E resp \in Responses :
        /\ response' = resp
        /\ IF resp = NoResponse
           THEN /\ listed' = Returned(NilRepoList, "making request")
                /\ UNCHANGED << reposArr, strArrays, fixed >>
           ELSE IF resp.status # StatusOK
           THEN /\ listed' = Returned(NilRepoList, "unexpected status code")
                /\ UNCHANGED << reposArr, strArrays, fixed >>
           ELSE LET data == Decode(resp.body, reposArr)
                    r == fixAliases(data.repos, strArrays)
                IN  IF data.err # NoErr
                    THEN /\ listed' = Returned(NilRepoList, data.err)
                         /\ UNCHANGED << reposArr, strArrays, fixed >>
                    ELSE /\ reposArr' = r.repos
                         /\ strArrays' = r.arrays
                         /\ fixed' = ReturnedSlice(r.repos)
                         /\ listed' = Returned(RepoList(DeepRepos(r.repos, r.arrays),
                                                        now, TRUE), NoErr)
    /\ cpc' = "listed"
    /\ UNCHANGED << cmdVars, cacheDuration, now, pc, result, issued, overlap, callCount,
                    delegateLog, memVars, fileVars, ownVars, origRepos, onceRepos,
                    helmVars >>

\* the caches are not in use
CacheIdle ==
    /\ CmdIdle
    /\ now = 0
    /\ cacheDuration = 0
    /\ pc = [c \in Callers |-> "idle"]
    /\ result = [c \in Callers |-> NoResult]
    /\ issued = 0
    /\ overlap = FALSE
    /\ callCount = 0
    /\ delegateLog = << >>
    /\ repoList = NilRepoList
    /\ lock = NoOne
    /\ cachedList = [c \in Callers |-> NilRepoList]
    /\ fetched = [c \in Callers |-> NilRepoList]
    /\ stored = 0
    /\ held = [c \in Callers |-> 0]
    /\ dirCreated = FALSE
    /\ dirExists = FALSE
    /\ file = AbsentFile

\* a list of records is in memory, decoded or built by the caller, and the
\* table is as the program text has it
CatalogInit ==
    /\ CacheIdle
    /\ HelmIdle
    /\ cpc = "start"
    /\ \E in \in InputLists :
        /\ reposArr = HeapRepos(in)
        /\ strArrays = HeapArrays(in)
        /\ origRepos = in
    /\ onceRepos = << >>
    /\ fixed = NoResult
    /\ response = NoResult
    /\ listed = NoResult

CatalogNext ==
    \/ FixCall
    \/ FixAgain
    \/ CallerWrite
    \/ RepoClientListRepos
    \/ Tick

SpecCatalog == CatalogInit /\ [][CatalogNext]_vars

(***************************************************************************)
(* The tree rewriter (internal/helm): MapValues, walkValues, mapFn,        *)
(* mapImage, setValue.  A string that is joined or parsed is a sequence of *)
(* pieces (names, "/", ":"), so that joining and parsing are computed.     *)
(***************************************************************************)
\* image references found in values files
GhcrAB == << "ghcr.io", "/", "a", "/", "b" >>
QuayOrgApp == << "quay.io", "/", "org", "/", "app" >>
OrgApp == << "org", "/", "app" >>
Quay == << "quay.io" >>
Unknown == << "docker.io", "/", "unknown" >>
Unreachable == << "down.example", "/", "x" >>
Odd == << "odd" >>
Hub == << "hub" >>
EmptyString == << >>

\* pieces that hold a '.', and pieces with characters no reference may hold
DottedPieces == { "ghcr.io", "quay.io", "cgr.dev", "docker.io", "down.example",
                  "mirror.internal", "index.docker.io" }
BadPieces == { "Not A Reference" }

\* the elements of a sequence
Range(s) == { s[i] : i \in DOMAIN s }

\* name.NewRepository: the part before the first "/" is the registry iff it
\* holds a '.' or a ':'; the rest must be made of repository characters
NewRepository(base) ==
    LET slashes == { i \in DOMAIN base : base[i] = "/" }
        first == IF slashes = {} THEN 0
                 ELSE CHOOSE i \in slashes : \A j \in slashes : i <= j
        head == SubSeq(base, 1, first - 1)
        split == first > 0 /\ (Range(head) \cap (DottedPieces \cup {":"}) # {})
        registry == IF split THEN head ELSE << >>
        repository == IF split THEN SubSeq(base, first + 1, Len(base)) ELSE base
    IN  IF base = << >> \/ repository = << >>
            \/ Range(repository) \cap (BadPieces \cup {":"}) # {}
            \/ Range(registry) \cap (BadPieces \cup {"/"}) # {}
        THEN [err |-> "parsing reference"]
        ELSE [err |-> NoErr, registry |-> registry, repository |-> repository]

\* name.ParseReference of a string with no digest: name.NewTag takes what
\* follows the last ":" as the tag unless it holds a "/", then NewRepository
ParseReference(s) ==
    LET colons == { i \in DOMAIN s : s[i] = ":" }
        last == IF colons = {} THEN 0
                ELSE CHOOSE i \in colons : \A j \in colons : j <= i
        tagged == last > 0 /\ "/" \notin Range(SubSeq(s, last + 1, Len(s)))
        tag == IF tagged THEN SubSeq(s, last + 1, Len(s)) ELSE << >>
        base == IF tagged THEN SubSeq(s, 1, last - 1) ELSE s
    IN  IF tagged /\ (Len(tag) # 1 \/ Range(tag) \cap BadPieces # {})
        THEN [err |-> "parsing reference"]
        ELSE NewRepository(base)

\* Repository.RegistryStr, RepositoryStr: Docker Hub and its library/
\* namespace where the reference names none; Context().String() joins them
RegistryStr(ref) ==
    IF ref.registry = << >> THEN << "index.docker.io" >> ELSE ref.registry
RepositoryStr(ref) ==
    IF RegistryStr(ref) = << "index.docker.io" >> /\ "/" \notin Range(ref.repository)
    THEN << "library", "/" >> \o ref.repository
    ELSE ref.repository
ContextString(ref) == RegistryStr(ref) \o << "/" >> \o RepositoryStr(ref)

\* the mapper handed to MapValues, as the test's mockMapper: a table from
\* image to candidates (none for an image it does not know), and an image
\* for which Map returns an error
Mappings(img) ==
    CASE img = GhcrAB ->
            << << "cgr.dev", "/", "chainguard", "/", "b", ":", "latest" >>,
               << "cgr.dev", "/", "chainguard", "/", "b-fips", ":", "latest" >> >>
      [] img = QuayOrgApp ->
            << << "cgr.dev", "/", "chainguard", "/", "app", ":", "latest" >> >>
      [] img = OrgApp ->
            << << "mirror.internal", "/", "cg", "/", "app", ":", "latest" >> >>
      [] img = Hub -> << << "nginx", ":", "latest" >> >>
      [] img = Odd -> << << "Not A Reference" >> >>
      [] OTHER -> << >>
Map(img) ==
    IF img = Unreachable THEN [err |-> "listing repos", Results |-> << >>]
    ELSE [err |-> NoErr, Results |-> Mappings(img)]

\* mapImage: the first candidate of the mapping, parsed
mapImageMutant(img) ==
    LET mapping == Map(img)
    IN  IF mapping.err # NoErr THEN [err |-> "mapping image"]
        ELSE IF Len(mapping.Results) = 0
        THEN [err |-> NoErr, registry |-> << >>, repository |-> << >>]
        ELSE ParseReference(mapping.Results[1])
mapImage(img) ==
    LET mapping == Map(img)
    IN  IF mapping.err # NoErr THEN [err |-> "mapping image"]
        ELSE IF Len(mapping.Results) = 0 THEN [err |-> "no results found"]
        ELSE ParseReference(mapping.Results[1])

\* A YAML value, as yaml.Unmarshal builds it: a function from key paths to
\* nodes.  The node at << >> is the value itself; a mapping
\* (map[string]interface{}) has a node for each of its keys; a sequence
\* ([]interface{}) holds its items, which no key path leads into.
MapNode == [kind |-> "map"]
StrNode(str) == [kind |-> "str", s |-> str]
SeqNode(items) == [kind |-> "seq", items |-> items]
OtherNode == [kind |-> "other"]
Leaf(node) == (<< >> :> node)
NoKeys == << >>
Mapping(kids) ==
    [p \in {<< >>} \cup UNION { { <<k>> \o q : q \in DOMAIN kids[k] } : k \in DOMAIN kids }
        |-> IF p = << >> THEN MapNode ELSE kids[Head(p)][Tail(p)]]

IsPrefix(p, q) == Len(p) <= Len(q) /\ SubSeq(q, 1, Len(p)) = p
\* the keys of the mapping at p (for k := range values)
KeysAt(tree, p) == { q[Len(q)] : q \in { r \in DOMAIN tree : Len(r) = Len(p) + 1 /\ IsPrefix(p, r) } }
\* the value at p
Subtree(tree, p) ==
    [q \in { SubSeq(r, Len(p) + 1, Len(r)) : r \in { r \in DOMAIN tree : IsPrefix(p, r) } }
        |-> tree[p \o q]]

\* append on a []string: in place when the capacity allows, else on a new
\* array whose capacity is what growslice gives a small slice
NilPath == [arr |-> 0, len |-> 0, cap |-> 0]
PathOf(slice, arrs) == IF slice.len = 0 THEN << >> ELSE SubSeq(arrs[slice.arr], 1, slice.len)
append(slice, keys, arrs) ==
    LET needed == slice.len + Len(keys)
        newcap == IF needed > 2 * slice.cap THEN needed ELSE 2 * slice.cap
    IN  IF needed <= slice.cap
        THEN [slice |-> [slice EXCEPT !.len = needed],
              arrays |-> [arrs EXCEPT ![slice.arr] =
                            [i \in 1..slice.cap |->
                                IF i \in (slice.len + 1)..needed
                                THEN keys[i - slice.len] ELSE @[i]]]]
        ELSE [slice |-> [arr |-> Len(arrs) + 1, len |-> needed, cap |-> newcap],
              arrays |-> Append(arrs, [i \in 1..newcap |->
                            IF i <= slice.len THEN arrs[slice.arr][i]
                            ELSE IF i <= needed THEN keys[i - slice.len]
                            ELSE ""])]

\* setValue: walks outputValues along path, makes the mappings that are
\* missing, and assigns at the last key.  The type assertion on an
\* intermediate value that is not a mapping panics.
setValueMutant(values, path, value) ==
    LET written == { <<path[i]>> : i \in 1..Len(path) }
        kept == { q \in DOMAIN values : \A w \in written : ~IsPrefix(w, q) }
    IN  [panicked |-> FALSE,
         values |-> [q \in kept \cup written |->
                        IF q = <<path[Len(path)]>> THEN StrNode(value)
                        ELSE IF q \in kept THEN values[q]
                        ELSE MapNode]]
setValue(values, path, value) ==
    LET blocked == \E i \in 1..(Len(path) - 1) :
                      /\ SubSeq(path, 1, i) \in DOMAIN values
                      /\ values[SubSeq(path, 1, i)].kind # "map"
        kept == { q \in DOMAIN values : ~IsPrefix(path, q) }
    IN  IF blocked THEN [panicked |-> TRUE, values |-> values]
        ELSE [panicked |-> FALSE,
              values |-> [q \in kept \cup { SubSeq(path, 1, i) : i \in 0..Len(path) } |->
                            IF q = path THEN StrNode(value)
                            ELSE IF q \in DOMAIN values THEN values[q]
                            ELSE MapNode]]

\* the function mapFn returns, called with (path, key, value); looked is
\* what it handed to m.Map
mapFnMutant(values, arrs, path, key, value) ==
    LET none == [values |-> values, arrays |-> arrs, panicked |-> FALSE, looked |-> {}]
    IN  IF value[<< >>].kind = "str"
        THEN LET w == setValue(values, PathOf(path, arrs) \o <<key>>, value[<< >>].s)
             IN  [none EXCEPT !.values = w.values, !.panicked = w.panicked]
        ELSE none
mapFn(values, arrs, path, key, value) ==
    LET none == [values |-> values, arrays |-> arrs, panicked |-> FALSE, looked |-> {}]
    IN  IF key # "image" THEN none
        ELSE IF value[<< >>].kind = "str"
        THEN LET img == value[<< >>].s
                 mapping == mapImage(img)
                 a == append(path, <<key>>, arrs)
                 w == setValue(values, PathOf(a.slice, a.arrays), ContextString(mapping))
             IN  IF mapping.err # NoErr THEN [none EXCEPT !.looked = {img}]
                 ELSE [values |-> w.values, arrays |-> a.arrays,
                       panicked |-> w.panicked, looked |-> {img}]
        ELSE IF value[<< >>].kind = "map"
        THEN LET repo == IF <<"repository">> \in DOMAIN value
                            /\ value[<<"repository">>].kind = "str"
                         THEN value[<<"repository">>].s ELSE EmptyString
                 hasRegistry == <<"registry">> \in DOMAIN value
                 joined == IF hasRegistry /\ value[<<"registry">>].kind = "str"
                              /\ value[<<"registry">>].s # EmptyString
                           THEN value[<<"registry">>].s \o << "/" >> \o repo
                           ELSE repo
                 mapping == mapImage(joined)
                 a1 == append(path, <<key, "registry">>, arrs)
                 w1 == setValue(values, PathOf(a1.slice, a1.arrays), RegistryStr(mapping))
                 a2 == append(path, <<key, "repository">>, a1.arrays)
                 w2 == setValue(w1.values, PathOf(a2.slice, a2.arrays),
                                RepositoryStr(mapping))
                 a3 == append(path, <<key, "repository">>, arrs)
                 w3 == setValue(values, PathOf(a3.slice, a3.arrays),
                                ContextString(mapping))
             IN  IF repo = EmptyString THEN none
                 ELSE IF mapping.err # NoErr THEN [none EXCEPT !.looked = {joined}]
                 ELSE IF ~hasRegistry
                 THEN [values |-> w3.values, arrays |-> a3.arrays,
                       panicked |-> w3.panicked, looked |-> {joined}]
                 ELSE IF w1.panicked
                 THEN [values |-> values, arrays |-> a1.arrays,
                       panicked |-> TRUE, looked |-> {joined}]
                 ELSE [values |-> w2.values, arrays |-> a2.arrays,
                       panicked |-> w2.panicked, looked |-> {joined}]
        ELSE none

\* yaml.Marshal of a map[string]interface{}: a line for each key, the keys
\* of a mapping in sorted order, the keys of a nested mapping indented
\* beneath its own line, "{}" for a mapping with no keys
KeyOrder == << "a", "containers", "enabled", "image", "n", "registry", "repository",
              "sha", "tag" >>
RECURSIVE MarshalFrom(_, _, _)
MarshalFrom(tree, p, i) ==
    IF i > Len(KeyOrder) THEN << >>
    ELSE LET q == p \o << KeyOrder[i] >>
             line == [indent |-> Len(p), key |-> KeyOrder[i],
                      value |-> IF tree[q].kind # "map" THEN tree[q]
                                ELSE IF KeysAt(tree, q) = {} THEN [kind |-> "{}"]
                                ELSE [kind |-> ""]]
         IN  (IF q \in DOMAIN tree
              THEN << line >> \o (IF tree[q].kind = "map" THEN MarshalFrom(tree, q, 1)
                                  ELSE << >>)
              ELSE << >>) \o MarshalFrom(tree, p, i + 1)
yamlMarshal(tree) ==
    IF KeysAt(tree, << >>) = {} THEN << [indent |-> 0, key |-> "", value |-> [kind |-> "{}"]] >>
    ELSE MarshalFrom(tree, << >>, 1)

\* yaml.Unmarshal into a map[string]interface{}: an error for bytes that are
\* not YAML and for a document that is not a mapping, no change to the empty
\* map for an empty document, else the document's mapping.  A value that is
\* neither a string, a map[string]interface{} nor a sequence (a number, a
\* boolean, null, a mapping with a key that is not a string) is OtherNode.
yamlUnmarshal(bytes) ==
    IF bytes.kind \in { "not yaml", "sequence document" } THEN [err |-> "unmarshalling yaml"]
    ELSE IF bytes.kind = "empty document" THEN [err |-> NoErr, values |-> Leaf(MapNode)]
    ELSE [err |-> NoErr, values |-> bytes.doc]

\* the values of an image key in the documents: strings that map, that map to
\* nothing, whose lookup fails, whose first candidate does not parse; the
\* mapping forms, with and without registry; the other shapes
V1 == << "v1" >>
Containers == Leaf(SeqNode(<< Mapping("name" :> Leaf(StrNode(<< "main" >>))
                                  @@ "image" :> Leaf(StrNode(GhcrAB))) >>))
RegistryForm(registry, repository) ==
    Mapping("registry" :> registry @@ "repository" :> Leaf(StrNode(repository))
            @@ "tag" :> Leaf(StrNode(V1)))
ScalarForms == { Leaf(StrNode(img)) : img \in { GhcrAB, Hub, Unknown, Unreachable, Odd } }
MappingForms ==
    { Mapping("repository" :> Leaf(StrNode(img)) @@ "tag" :> Leaf(StrNode(V1)))
        : img \in { QuayOrgApp, Unknown } }
    \cup { RegistryForm(Leaf(StrNode(Quay)), OrgApp),
           RegistryForm(Leaf(StrNode(Quay)), << "none" >>),
           RegistryForm(Leaf(StrNode(EmptyString)), OrgApp),
           RegistryForm(Leaf(OtherNode), OrgApp),
           RegistryForm(Mapping("image" :> Leaf(StrNode(GhcrAB))), OrgApp),
           RegistryForm(Mapping("image" :> Leaf(StrNode(GhcrAB))), << "none" >>),
           Mapping("repository" :> Leaf(StrNode(Unknown))
                   @@ "image" :> Leaf(StrNode(GhcrAB))) }
OtherForms ==
    { Mapping("tag" :> Leaf(StrNode(V1))),
      Mapping("repository" :> Leaf(StrNode(EmptyString))),
      Mapping("repository" :> Leaf(OtherNode) @@ "registry" :> Leaf(StrNode(Quay))),
      Mapping("registry" :> Leaf(StrNode(Quay))),
      Leaf(OtherNode),
      Containers }
ImageForms == ScalarForms \cup MappingForms \cup OtherForms
SecondForms ==
    { Leaf(StrNode(GhcrAB)), Leaf(StrNode(Unknown)),
      RegistryForm(Leaf(StrNode(Quay)), OrgApp),
      RegistryForm(Mapping("image" :> Leaf(StrNode(GhcrAB))), OrgApp) }
Absent == << >>
Opt(k, tree) == IF tree = Absent THEN NoKeys ELSE k :> tree

\* a values file with an image at the root, one beneath the key a, and one
\* inside a sequence
Doc(f, g) ==
    Mapping(Opt("image", f)
            @@ "a" :> Mapping(Opt("image", g) @@ "enabled" :> Leaf(OtherNode))
            @@ "containers" :> Containers)
\* a values file with images at every depth down to ChainDepth
ChainDepth == 4
RECURSIVE Chain(_)
Chain(d) ==
    IF d = 0 THEN Mapping("image" :> Leaf(StrNode(GhcrAB)) @@ "sha" :> Leaf(OtherNode))
    ELSE Mapping("n" :> Chain(d - 1)
                 @@ "image" :> RegistryForm(Leaf(StrNode(Quay)), OrgApp))
Documents ==
    { Doc(f, g) : f \in ImageForms \cup {Absent}, g \in SecondForms \cup {Absent} }
    \cup { Chain(ChainDepth) }
Inputs ==
    { [kind |-> k] : k \in { "not yaml", "sequence document", "empty document" } }
    \cup { [kind |-> "mapping", doc |-> d] : d \in Documents }

\* MapValues up to the call of walkValues
MapValuesStart ==
    /\ hpc = "start"
    /\ LET u == yamlUnmarshal(input)
       IN  IF u.err # NoErr
           THEN /\ mapValuesResult' = [output |-> << >>, err |-> "unmarshalling yaml"]
                /\ hpc' = "returned"
                /\ UNCHANGED << inputValues, outputValues, walkStack >>
           ELSE /\ inputValues' = u.values
                /\ outputValues' = Leaf(MapNode)
                /\ walkStack' = << [path |-> NilPath, values |-> << >>,
                                    todo |-> KeysAt(u.values, << >>)] >>
                /\ hpc' = "walking"
                /\ UNCHANGED mapValuesResult
    /\ UNCHANGED << input, pathArrays, mapCalls >>
    /\ UNCHANGED << cmdVars, now, cacheDuration, pc, result, issued, overlap, callCount,
                    delegateLog, memVars, fileVars, ownVars, catVars >>

\* one turn of the loop of the innermost walkValues: range yields a key it
\* has not yielded yet, in no order; fn is called; a value that is a
\* map[string]interface{} is walked with append(path, k)
WalkVisitSequences ==
    /\ hpc = "walking"
    /\ LET top == walkStack[Len(walkStack)]
       IN  \E k \in top.todo :
            LET at == top.values \o <<k>>
                v == Subtree(inputValues, at)
                r == mapFn(outputValues, pathArrays, top.path, k, v)
                a == append(top.path, <<k>>, r.arrays)
                rest == [walkStack EXCEPT ![Len(walkStack)].todo = @ \ {k}]
                item == v[<< >>].items[1]
                inner == mapFn(r.values, a.arrays, a.slice, "image", Subtree(item, <<"image">>))
            IN  IF r.panicked
                THEN /\ hpc' = "panicked"
                     /\ walkStack' = << >>
                     /\ mapCalls' = mapCalls \cup { << at, img >> : img \in r.looked }
                     /\ UNCHANGED << outputValues, pathArrays >>
                ELSE IF v[<< >>].kind = "map"
                THEN /\ hpc' = "walking"
                     /\ mapCalls' = mapCalls \cup { << at, img >> : img \in r.looked }
                     /\ outputValues' = r.values
                     /\ pathArrays' = a.arrays
                     /\ walkStack' = Append(rest,
                           [path |-> a.slice, values |-> at,
                            todo |-> KeysAt(inputValues, at)])
                ELSE IF v[<< >>].kind = "seq"
                THEN /\ hpc' = "walking"
                     /\ mapCalls' = mapCalls \cup { << at, img >> : img \in r.looked }
                                    \cup { << at \o <<"image">>, img >> : img \in inner.looked }
                     /\ outputValues' = inner.values
                     /\ pathArrays' = inner.arrays
                     /\ walkStack' = rest
                ELSE /\ hpc' = "walking"
                     /\ mapCalls' = mapCalls \cup { << at, img >> : img \in r.looked }
                     /\ outputValues' = r.values
                     /\ pathArrays' = r.arrays
                     /\ walkStack' = rest
    /\ UNCHANGED << input, inputValues, mapValuesResult >>
    /\ UNCHANGED << cmdVars, now, cacheDuration, pc, result, issued, overlap, callCount,
                    delegateLog, memVars, fileVars, ownVars, catVars >>
WalkVisitMutant ==
    /\ hpc = "walking"
    /\ LET top == walkStack[Len(walkStack)]
       IN  \E k \in top.todo :
            LET at == top.values \o <<k>>
                v == Subtree(inputValues, at)
                r == mapFn(outputValues, pathArrays, top.path, k, v)
                a == append(top.path, <<k>>, r.arrays)
                rest == [walkStack EXCEPT ![Len(walkStack)].todo = @ \ {k}]
            IN  /\ mapCalls' = mapCalls \cup { << at, img >> : img \in r.looked }
                /\ IF r.panicked
                   THEN /\ hpc' = "panicked"
                        /\ walkStack' = << >>
                        /\ UNCHANGED << outputValues, pathArrays >>
                   ELSE /\ hpc' = "walking"
                        /\ outputValues' = r.values
                        /\ IF v[<< >>].kind = "map"
                           THEN /\ pathArrays' = a.arrays
                                /\ walkStack' = Append([rest EXCEPT ![Len(walkStack)].path = a.slice],
                                      [path |-> a.slice, values |-> at,
                                       todo |-> KeysAt(inputValues, at)])
                           ELSE /\ pathArrays' = r.arrays
                                /\ walkStack' = rest
    /\ UNCHANGED << input, inputValues, mapValuesResult >>
    /\ UNCHANGED << cmdVars, now, cacheDuration, pc, result, issued, overlap, callCount,
                    delegateLog, memVars, fileVars, ownVars, catVars >>
WalkVisit ==
    /\ hpc = "walking"
    /\ LET top == walkStack[Len(walkStack)]
       IN  \E k \in top.todo :
            LET at == top.values \o <<k>>
                v == Subtree(inputValues, at)
                r == mapFn(outputValues, pathArrays, top.path, k, v)
                a == append(top.path, <<k>>, r.arrays)
                rest == [walkStack EXCEPT ![Len(walkStack)].todo = @ \ {k}]
            IN  /\ mapCalls' = mapCalls \cup { << at, img >> : img \in r.looked }
                /\ IF r.panicked
                   THEN /\ hpc' = "panicked"
                        /\ walkStack' = << >>
                        /\ UNCHANGED << outputValues, pathArrays >>
                   ELSE /\ hpc' = "walking"
                        /\ outputValues' = r.values
                        /\ IF v[<< >>].kind = "map"
                           THEN /\ pathArrays' = a.arrays
                                /\ walkStack' = Append(rest,
                                      [path |-> a.slice, values |-> at,
                                       todo |-> KeysAt(inputValues, at)])
                           ELSE /\ pathArrays' = r.arrays
                                /\ walkStack' = rest
    /\ UNCHANGED << input, inputValues, mapValuesResult >>
    /\ UNCHANGED << cmdVars, now, cacheDuration, pc, result, issued, overlap, callCount,
                    delegateLog, memVars, fileVars, ownVars, catVars >>

\* a nested walkValues has ranged over all its keys and returns nil
WalkReturn ==
    /\ hpc = "walking"
    /\ Len(walkStack) > 1
    /\ walkStack[Len(walkStack)].todo = {}
    /\ walkStack' = SubSeq(walkStack, 1, Len(walkStack) - 1)
    /\ UNCHANGED << hpc, input, inputValues, outputValues, pathArrays, mapCalls,
                    mapValuesResult >>
    /\ UNCHANGED << cmdVars, now, cacheDuration, pc, result, issued, overlap, callCount,
                    delegateLog, memVars, fileVars, ownVars, catVars >>

\* the outermost walkValues returns nil; MapValues marshals outputValues
MapValuesReturnMutant ==
    /\ hpc = "walking"
    /\ Len(walkStack) = 1
    /\ walkStack[1].todo = {}
    /\ walkStack' = << >>
    /\ mapValuesResult' = IF KeysAt(outputValues, << >>) = {}
                          THEN [output |-> << >>, err |-> "no images mapped"]
                          ELSE [output |-> yamlMarshal(outputValues), err |-> NoErr]
    /\ hpc' = "returned"
    /\ UNCHANGED << input, inputValues, outputValues, pathArrays, mapCalls >>
    /\ UNCHANGED << cmdVars, now, cacheDuration, pc, result, issued, overlap, callCount,
                    delegateLog, memVars, fileVars, ownVars, catVars >>
MapValuesReturn ==
    /\ hpc = "walking"
    /\ Len(walkStack) = 1
    /\ walkStack[1].todo = {}
    /\ walkStack' = << >>
    /\ mapValuesResult' = [output |-> yamlMarshal(outputValues), err |-> NoErr]
    /\ hpc' = "returned"
    /\ UNCHANGED << input, inputValues, outputValues, pathArrays, mapCalls >>
    /\ UNCHANGED << cmdVars, now, cacheDuration, pc, result, issued, overlap, callCount,
                    delegateLog, memVars, fileVars, ownVars, catVars >>

HelmInit ==
    /\ CacheIdle
    /\ CatIdle
    /\ hpc = "start"
    /\ input \in Inputs
    /\ inputValues = << >>
    /\ outputValues = << >>
    /\ walkStack = << >>
    /\ pathArrays = << >>
    /\ mapCalls = {}
    /\ mapValuesResult = NoResult

HelmNext ==
    \/ MapValuesStart
    \/ WalkVisit
    \/ WalkReturn
    \/ MapValuesReturn

SpecHelm == HelmInit /\ [][HelmNext]_vars

(***************************************************************************)
(* image-copy-azure (main.go): handler, the HTTP handler of the function   *)
(* that mirrors pushed images, and verifyAuth.  The response keeps the     *)
(* status of the first httpError; httpErrors holds every code passed.      *)
(***************************************************************************)

MaxRequests == 2

StatusBadRequest == 400
StatusUnauthorized == 401
StatusMethodNotAllowed == 405
StatusInternalServerError == 500

\* registry.PushedEventType, and the type of some other event
PushedEventType == "dev.chainguard.registry.push.v1"
OtherEventType == "dev.chainguard.registry.pull.v1"

\* env.Group
envGroup == "org"

\* what verifier.Verify makes of a token: an error, or a token with a Subject
\* (a prefix and the rest)
BadToken == [valid |-> FALSE]
Token(prefix, rest) == [valid |-> TRUE, prefix |-> prefix, rest |-> rest]
Tokens == { BadToken, Token("webhook:", "org"), Token("webhook:", "other"),
            Token("user:", "org") }

\* the Authorization header: absent, "Bearer " alone, or "Bearer <token>";
\* token is what strings.TrimPrefix(..., "Bearer ") leaves
NoToken == [empty |-> TRUE]
Authorizations == { [bearer |-> b, token |-> NoToken] : b \in BOOLEAN }
                  \cup { [bearer |-> TRUE, token |-> t] : t \in Tokens }

\* the request body: bytes that do not decode, or a registry.PushEvent
Undecodable == [decodes |-> FALSE]
PushEvents == { [decodes |-> TRUE, Error |-> e, Tag |-> tag, Type |-> ty] :
                  e \in BOOLEAN, tag \in { "", "latest" }, ty \in { "manifest", "blob" } }

Requests == [ Method : { "POST", "GET" },
              authorization : Authorizations,
              ceType : { PushedEventType, OtherEventType },
              body : { Undecodable } \cup PushEvents ]

\* verifyAuth: the codes it passes to httpError (none when it accepts the
\* token).  It returns nothing to its caller.
verifyAuth(r, providerFails) ==
    LET auth == r.authorization.token
    IN  IF auth = NoToken THEN << StatusUnauthorized >>
        ELSE IF providerFails THEN << StatusInternalServerError >>
        ELSE IF ~auth.valid THEN << StatusUnauthorized >>
        ELSE IF auth.prefix # "webhook:" THEN << StatusUnauthorized >>
        ELSE IF auth.rest # envGroup THEN << StatusUnauthorized >>
        ELSE << >>

\* lines 70-87 of handler: is the event one to copy, and the codes passed to
\* httpError on the way
CheckEventMutant(r) ==
    IF r.ceType # PushedEventType THEN [proceed |-> FALSE, codes |-> << >>]
    ELSE IF ~r.body.decodes THEN [proceed |-> FALSE, codes |-> << StatusBadRequest >>]
    ELSE IF r.body.Error THEN [proceed |-> FALSE, codes |-> << >>]
    ELSE IF r.body.Tag = "" THEN [proceed |-> FALSE, codes |-> << >>]
    ELSE [proceed |-> TRUE, codes |-> << >>]
CheckEvent(r) ==
    IF r.ceType # PushedEventType THEN [proceed |-> FALSE, codes |-> << >>]
    ELSE IF ~r.body.decodes THEN [proceed |-> FALSE, codes |-> << StatusBadRequest >>]
    ELSE IF r.body.Error THEN [proceed |-> FALSE, codes |-> << >>]
    ELSE IF r.body.Tag = "" \/ r.body.Type # "manifest"
    THEN [proceed |-> FALSE, codes |-> << >>]
    ELSE [proceed |-> TRUE, codes |-> << >>]

AzUnchanged ==
    UNCHANGED << now, cacheDuration, pc, result, issued, overlap, callCount,
                 delegateLog, memVars, fileVars, ownVars, catVars, helmVars,
                 mapVars, dfVars >>

\* handler is called with a request; a method other than POST ends it
HandlerStart ==
    /\ hstep \in { "idle", "done" }
    /\ served < MaxRequests
    /\ \E r \in Requests :
        /\ request' = r
        /\ IF r.Method # "POST"
           THEN /\ httpErrors' = << StatusMethodNotAllowed >>
                /\ hstep' = "done"
           ELSE /\ httpErrors' = << >>
                /\ hstep' = "auth"
    /\ rejected' = FALSE
    /\ lookups' = 0
    /\ copies' = << >>
    /\ served' = served + 1
    /\ AzUnchanged

\* line 64: verifyAuth(w, r); handler goes on whatever verifyAuth wrote
HandlerVerifyAuth ==
    /\ hstep = "auth"
    /\ \E providerFails \in BOOLEAN :
        LET codes == verifyAuth(request, providerFails)
        IN  /\ httpErrors' = httpErrors \o codes
            /\ rejected' = (codes # << >>)
    /\ hstep' = "event"
    /\ UNCHANGED << request, lookups, copies, served >>
    /\ AzUnchanged

\* lines 70-87: the checks of the event
HandlerCheckEvent ==
    /\ hstep = "event"
    /\ LET c == CheckEvent(request)
       IN  /\ httpErrors' = httpErrors \o c.codes
           /\ hstep' = IF c.proceed THEN "resolving" ELSE "done"
    /\ UNCHANGED << request, rejected, lookups, copies, served >>
    /\ AzUnchanged

\* lines 90-94: resolveRepositoryName, which may fail
HandlerResolve ==
    /\ hstep = "resolving"
    /\ lookups' = lookups + 1
    /\ \/ /\ hstep' = "copying"
          /\ UNCHANGED httpErrors
       \/ /\ hstep' = "done"
          /\ httpErrors' = Append(httpErrors, StatusInternalServerError)
    /\ UNCHANGED << request, rejected, copies, served >>
    /\ AzUnchanged

\* lines 97-109: crane.Copy of the pushed tag, which may fail
HandlerCopy ==
    /\ hstep = "copying"
    /\ copies' = Append(copies, request.body.Tag)
    /\ \/ UNCHANGED httpErrors
       \/ httpErrors' = Append(httpErrors, StatusInternalServerError)
    /\ hstep' = "done"
    /\ UNCHANGED << request, rejected, lookups, served >>
    /\ AzUnchanged

AzInit ==
    /\ CacheIdle
    /\ CatIdle
    /\ HelmIdle
    /\ dirExists = FALSE

AzNext ==
    \/ HandlerStart
    \/ HandlerVerifyAuth
    \/ HandlerCheckEvent
    \/ HandlerResolve
    \/ HandlerCopy

SpecAz == AzInit /\ [][AzNext]_vars

(***************************************************************************)
(* The image mapper (internal/mapper).  The options and WithIgnoreFns are  *)
(* those of options.go and the commands configure them as cmd does; Map,   *)
(* IgnoreTiers and IgnoreIamguarded are as the specification of the Image  *)
(* Mapper describes them.                                                  *)
(***************************************************************************)

\* the ignore functions the commands name
IgnoreTiers(tiers) == [fn |-> "IgnoreTiers", tiers |-> tiers]
IgnoreIamguarded == [fn |-> "IgnoreIamguarded"]

\* the naming convention of the iamguarded images
IamguardedNames == { "nginx-iamguarded" }

\* fn(repo): the ignore function excludes the record
Ignores(fn, repo) ==
    IF fn.fn = "IgnoreTiers" THEN repo.CatalogTier \in fn.tiers
    ELSE repo.Name \in IamguardedNames

\* options, before any Option is applied
NoOptions == [ignoreFns |-> << >>, repo |-> ""]

\* WithIgnoreFns(ignoreFns...)(o)
WithIgnoreFnsMutant(o, ignoreFns) == o
WithIgnoreFns(o, ignoreFns) == [o EXCEPT !.ignoreFns = ignoreFns]

\* WithRepository(repo)(o)
WithRepository(o, repo) == [o EXCEPT !.repo = repo]

\* the default of the --repository flag
DefaultRepository == "cgr.dev/chainguard"

\* the commands, with the flags of map that bear on ignoring
TierFlags == { {}, { "FIPS" }, { "APPLICATION" } }
Commands == { [Use |-> "dockerfile"], [Use |-> "helm-values"] }
            \cup { [Use |-> "map", IgnoreTiers |-> t, IgnoreIamguarded |-> g] :
                     t \in TierFlags, g \in BOOLEAN }

\* the ignore functions a command hands to WithIgnoreFns
IgnoreFnsOf(cmd) ==
    IF cmd.Use \in { "dockerfile", "helm-values" }
    THEN << IgnoreIamguarded, IgnoreTiers({ "FIPS" }) >>
    ELSE (IF cmd.IgnoreTiers # {} THEN << IgnoreTiers(cmd.IgnoreTiers) >> ELSE << >>)
         \o (IF cmd.IgnoreIamguarded THEN << IgnoreIamguarded >> ELSE << >>)

\* the options a command's NewMapper call ends with
OptionsOf(cmd) ==
    WithIgnoreFns(WithRepository(NoOptions, DefaultRepository), IgnoreFnsOf(cmd))

\* an image reference is its pieces; the canonical repository string is
\* what precedes the tag
Canonical(img) ==
    IF \E i \in DOMAIN img : img[i] = ":"
    THEN SubSeq(img, 1, (CHOOSE i \in DOMAIN img : img[i] = ":" /\ \A j \in 1..(i - 1) : img[j] # ":") - 1)
    ELSE img

\* the canonical input equals the record's name or one of its aliases
Matches(img, repo) ==
    \/ Canonical(img) = << repo.Name >>
    \/ \E i \in DOMAIN repo.Aliases : Canonical(img) = Canonical(repo.Aliases[i])

\* some configured ignore function excludes the record
Ignored(o, repo) == \E i \in DOMAIN o.ignoreFns : Ignores(o.ignoreFns[i], repo)

\* the candidates among rs[k..], in catalog order
RECURSIVE CandidatesFrom(_, _, _, _)
CandidatesFrom(o, rs, img, k) ==
    IF k > Len(rs) THEN << >>
    ELSE (IF ~Ignored(o, rs[k]) /\ Matches(img, rs[k])
          THEN << << o.repo, "/", rs[k].Name >> >>
          ELSE << >>)
         \o CandidatesFrom(o, rs, img, k + 1)

\* Mapper.Map
MapperMap(o, rs, img) == [Image |-> img, Results |-> CandidatesFrom(o, rs, img, 1)]

\* the catalogs and the images of the model
MapperNames == { "nginx", "nginx-fips", "nginx-iamguarded" }
MapperRecords == { [Name |-> n, CatalogTier |-> t, Aliases |-> a] :
                     n \in MapperNames, t \in { "APPLICATION", "FIPS" },
                     a \in { << >>, << << "nginx", ":", "1.27" >> >> } }
MapperCatalogs ==
    { rs \in UNION { [1..k -> MapperRecords] : k \in 0..MaxRecords } :
        \A i, j \in DOMAIN rs : i # j => rs[i].Name # rs[j].Name }
Images == { << "nginx" >>, << "nginx", ":", "latest" >>, << "nginx-fips" >>,
            << "redis" >> }

MapUnchanged ==
    UNCHANGED << now, cacheDuration, pc, result, issued, overlap, callCount,
                 delegateLog, memVars, fileVars, ownVars, catVars, helmVars,
                 azVars, dfVars >>

\* a command runs: NewMapper with the command's options, over a catalog
NewMapper ==
    /\ mpc = "idle"
    /\ \E cmd \in Commands, rs \in MapperCatalogs :
        /\ command' = cmd
        /\ options' = OptionsOf(cmd)
        /\ catalog' = rs
    /\ mpc' = "made"
    /\ UNCHANGED << image, mapResult >>
    /\ MapUnchanged

\* the command maps an image (MapAll: one Map per image)
MapAll ==
    /\ mpc \in { "made", "mapped" }
    /\ \E img \in Images :
        /\ image' = img
        /\ mapResult' = MapperMap(options, catalog, img)
    /\ mpc' = "mapped"
    /\ UNCHANGED << command, options, catalog >>
    /\ MapUnchanged

MapperInit ==
    /\ CacheIdle
    /\ CatIdle
    /\ HelmIdle

MapperNext ==
    \/ NewMapper
    \/ MapAll

SpecMapper == MapperInit /\ [][MapperNext]_vars

(***************************************************************************)
(* The Dockerfile rewriter (internal/dockerfile), as the specification of  *)
(* the line-oriented variant of the tree rewriter describes it, called by  *)
(* the dockerfile command with a mapper made as OptionsOf says.            *)
(***************************************************************************)

MaxLines == 3
MaxDocuments == 2

\* a FROM line: [--platform=...] <reference> [AS <alias>]; NoAlias without AS
NoAlias == << >>
From(platform, ref, alias) ==
    [kind |-> "FROM", platform |-> platform, ref |-> ref, alias |-> alias]
OtherLine(text) == [kind |-> "other", text |-> text]

\* the references and the lines of the model
Golang == << "golang", ":", "1.22" >>
Build == << "build" >>
NoSuchImage == << "unknown" >>
Lines == { From(FALSE, ref, alias) : ref \in { Golang, Build, NoSuchImage },
                                     alias \in { NoAlias, Build } }
         \cup { From(TRUE, Golang, Build), OtherLine("COPY --from=build /x /x") }
Dockerfiles == UNION { [1..k -> Lines] : k \in 1..MaxLines }

\* the catalog the rewriter's mapper matches against: an image for golang and
\* an image that is itself named build
DockerfileCatalog ==
    << [Name |-> "go", CatalogTier |-> "BASE", Aliases |-> << << "golang" >> >>],
       [Name |-> "build", CatalogTier |-> "BASE", Aliases |-> << >>] >>

\* the reference names a stage declared so far
IsStageMutant(ref, declared) == FALSE
IsStage(ref, declared) == ref \in declared

\* the line with the first candidate in place of its reference, the rest of
\* the line kept; the line itself when there is no candidate
Substitute(line, m) ==
    IF m.Results = << >> THEN line ELSE [line EXCEPT !.ref = m.Results[1]]

DfUnchanged ==
    UNCHANGED << now, cacheDuration, pc, result, issued, overlap, callCount,
                 delegateLog, memVars, fileVars, ownVars, catVars, helmVars,
                 azVars, mapVars >>

\* dockerfile.Map is called with a Dockerfile: no stage is declared yet
DockerfileMap ==
    /\ dpc \in { "idle", "returned" }
    /\ documents < MaxDocuments
    /\ dockerfile' \in Dockerfiles
    /\ lineNo' = 1
    /\ stages' = {}
    /\ rewritten' = << >>
    /\ mapperArgs' = {}
    /\ declaredBefore' = declaredBefore \cup stages
    /\ documents' = documents + 1
    /\ dpc' = "scanning"
    /\ DfUnchanged

\* the next line: a FROM line that does not name a declared stage has its
\* reference mapped; a FROM line with AS declares its alias
DockerfileLine ==
    /\ dpc = "scanning"
    /\ lineNo <= Len(dockerfile)
    /\ LET line == dockerfile[lineNo]
       IN  IF line.kind # "FROM"
           THEN /\ rewritten' = Append(rewritten, line)
                /\ UNCHANGED << stages, mapperArgs >>
           ELSE /\ IF IsStage(line.ref, stages)
                   THEN /\ rewritten' = Append(rewritten, line)
                        /\ UNCHANGED mapperArgs
                   ELSE /\ mapperArgs' = mapperArgs \cup { << lineNo, line.ref >> }
                        /\ rewritten' = Append(rewritten,
                               Substitute(line, MapperMap(OptionsOf([Use |-> "dockerfile"]),
                                                          DockerfileCatalog, line.ref)))
                /\ stages' = IF line.alias = NoAlias THEN stages
                             ELSE stages \cup { line.alias }
    /\ lineNo' = lineNo + 1
    /\ UNCHANGED << dpc, dockerfile, declaredBefore, documents >>
    /\ DfUnchanged

\* the last line is done: the rewritten Dockerfile is returned
DockerfileReturn ==
    /\ dpc = "scanning"
    /\ lineNo > Len(dockerfile)
    /\ dpc' = "returned"
    /\ UNCHANGED << dockerfile, lineNo, stages, rewritten, mapperArgs, declaredBefore,
                    documents >>
    /\ DfUnchanged

DockerfileInit ==
    /\ CacheIdle
    /\ CatIdle
    /\ HelmIdle

DockerfileNext ==
    \/ DockerfileMap
    \/ DockerfileLine
    \/ DockerfileReturn

SpecDockerfile == DockerfileInit /\ [][DockerfileNext]_vars

(***************************************************************************)
(* Properties of cachingRepoClient, checked under SpecMem.                 *)
(***************************************************************************)
\* no delegate call has failed so far
NoFailedFetch == \A i \in DOMAIN delegateLog : delegateLog[i].err = NoErr

\* the list of the most recent delegate call that succeeded
LastFetched(log) ==
    LET ok == { i \in DOMAIN log : log[i].err = NoErr }
    IN  IF ok = {} THEN NilRepoList
        ELSE log[CHOOSE i \in ok : \A j \in ok : j <= i].list

\* caller c leaves the freshness check in this step
ChecksNow(c) == pc[c] = "waiting" /\ pc'[c] # "waiting"

\* caller c's delegate call returns in this step
FetchEndsNow(c) == pc[c] = "fetching" /\ pc'[c] # "fetching"

\* C1: on a cache that starts empty, with a delegate that has not failed, as
\* long as the first list fetched is inside its cacheDuration window the
\* delegate has been called exactly once, however the callers interleave, and
\* every call that has returned returned that one list.
C1_OneFetchPerWindow ==
    ( /\ delegateLog # << >>
      /\ NoFailedFetch
      /\ now - delegateLog[1].list.FetchedAt < cacheDuration )
    => /\ callCount = 1
       /\ \A c \in Callers :
            result[c] # NoResult => result[c] = Returned(delegateLog[1].list, NoErr)

\* C1 witness: every caller has called, calls overlapped, all have returned
\* inside the window of the single fetch.
C1_Witness ==
    /\ NumCallers >= 2
    /\ overlap
    /\ \A c \in Callers : pc[c] = "idle" /\ result[c] # NoResult
    /\ NoFailedFetch
    /\ callCount = 1
    /\ Len(delegateLog) = 1
    /\ now - delegateLog[1].list.FetchedAt < cacheDuration
    /\ \A c \in Callers : result[c] = Returned(delegateLog[1].list, NoErr)

\* C2: a call returns without calling the delegate exactly when a list is
\* stored and now - FetchedAt < cacheDuration (strictly); what it returns is
\* the stored list, which is what the delegate last returned; at age equal to
\* cacheDuration, and always when cacheDuration is 0, the delegate is called.
C2_HitIffFresh ==
    [][ \A c \in Callers : ChecksNow(c) =>
          LET hit == pc'[c] = "idle" /\ callCount' = callCount
              age == now - repoList.FetchedAt
          IN  /\ hit <=> (repoList # NilRepoList /\ age < cacheDuration)
              /\ hit => /\ result'[c] = Returned(repoList, NoErr)
                        /\ repoList = LastFetched(delegateLog)
                        /\ repoList' = repoList
              /\ ~hit => pc'[c] = "fetching" /\ callCount' = callCount + 1
              /\ (cacheDuration = 0 \/ (repoList # NilRepoList /\ age = cacheDuration))
                    => callCount' = callCount + 1
      ]_vars

\* C2 witness: three calls are over; the second was issued at age exactly
\* cacheDuration and fetched again, so one of the three was a hit.
C2_Witness ==
    /\ issued = 3
    /\ \A c \in Callers : pc[c] = "idle"
    /\ Len(delegateLog) = 2
    /\ NoFailedFetch
    /\ callCount = 2
    /\ delegateLog[2].list.FetchedAt - delegateLog[1].list.FetchedAt = cacheDuration
    /\ \E c \in Callers : result[c] = Returned(repoList, NoErr)

\* C3: a call that finds the stored list at age >= cacheDuration calls the
\* delegate, once; when that call succeeds the new list is stored and
\* returned; while the second list fetched is inside its window the delegate
\* has been called exactly twice and every call that returns is a hit on the
\* second list.
C3_RefetchAfterExpiry ==
    [][ /\ \A c \in Callers :
            /\ ( /\ ChecksNow(c)
                 /\ repoList # NilRepoList
                 /\ now - repoList.FetchedAt >= cacheDuration )
               => pc'[c] = "fetching" /\ callCount' = callCount + 1
            /\ (FetchEndsNow(c) /\ delegateLog'[Len(delegateLog')].err = NoErr)
               => LET new == delegateLog'[Len(delegateLog')].list
                  IN  /\ repoList' = new
                      /\ result'[c] = Returned(new, NoErr)
                      /\ new.FetchedAt = now
                      /\ callCount' = callCount
        /\ ( /\ Len(delegateLog') = 2
             /\ NoFailedFetch'
             /\ now' - delegateLog'[2].list.FetchedAt < cacheDuration )
           => /\ callCount' = 2
              /\ repoList' = delegateLog'[2].list
              /\ \A c \in Callers :
                    (pc[c] # "idle" /\ pc'[c] = "idle")
                        => result'[c] = Returned(delegateLog'[2].list, NoErr)
      ]_vars

\* C3 witness: the list was fetched, expired, was fetched again, and a later
\* call inside the new window returned the second list without a fetch.
C3_Witness ==
    /\ issued = 3
    /\ \A c \in Callers : pc[c] = "idle"
    /\ Len(delegateLog) = 2
    /\ NoFailedFetch
    /\ callCount = 2
    /\ delegateLog[1].list # delegateLog[2].list
    /\ repoList = delegateLog[2].list
    /\ now > delegateLog[2].list.FetchedAt
    /\ now - delegateLog[2].list.FetchedAt < cacheDuration
    /\ \A c \in Callers : result[c] = Returned(delegateLog[2].list, NoErr)

\* C4: when the delegate call fails the caller gets that error and no list,
\* and the stored list, or its absence, is exactly what it was.
C4_FailureKeepsStored ==
    [][ \A c \in Callers :
          (FetchEndsNow(c) /\ delegateLog'[Len(delegateLog')].err # NoErr)
            => /\ result'[c] = Returned(NilRepoList, delegateLog'[Len(delegateLog')].err)
               /\ repoList' = repoList
      ]_vars

\* C4 witness: a refresh has just failed, the caller holds the error, and the
\* expired list of the earlier fetch is still stored.
C4_Witness ==
    /\ Len(delegateLog) = 2
    /\ delegateLog[1].err = NoErr
    /\ delegateLog[2].err # NoErr
    /\ repoList = delegateLog[1].list
    /\ ~IsFresh(repoList, now, cacheDuration)
    /\ \E c \in Callers : result[c] = Returned(NilRepoList, delegateLog[2].err)

\* C33: the lock is held only by a caller whose delegate call is in
\* progress, so it is free after a hit, a fetch and a failed fetch; and every
\* caller that has called ListRepos returns from it.
C33_EveryCallerReturns ==
    /\ [](lock # NoOne => pc[lock] = "fetching")
    /\ \A c \in Callers : (pc[c] # "idle") ~> (pc[c] = "idle")

\* calls overlapped, one ended in a hit, one in a fetch and one in a failed
\* fetch, and every caller has returned with the lock free
C33_Witness ==
    /\ overlap
    /\ issued = MaxCalls
    /\ \A c \in Callers : pc[c] = "idle" /\ result[c] # NoResult
    /\ lock = NoOne
    /\ callCount < issued
    /\ \E i \in DOMAIN delegateLog : delegateLog[i].err = NoErr
    /\ \E i \in DOMAIN delegateLog : delegateLog[i].err # NoErr

\* C34: whatever the age of the list the delegate returns, it is stored and
\* returned as it is, FetchedAt included; a call is a hit exactly when the
\* stored list's FetchedAt is less than cacheDuration ago, however recently
\* the list was stored, so that after a list already that old is stored
\* every call calls the delegate.
C34_FreshnessByFetchedAt ==
    [][ \A c \in Callers :
          /\ (FetchEndsNow(c) /\ delegateLog'[Len(delegateLog')].err = NoErr)
                => /\ repoList' = delegateLog'[Len(delegateLog')].list
                   /\ result'[c] = Returned(repoList', NoErr)
          /\ ChecksNow(c)
                => IF repoList # NilRepoList /\ now - repoList.FetchedAt < cacheDuration
                   THEN pc'[c] = "idle" /\ callCount' = callCount
                   ELSE pc'[c] = "fetching" /\ callCount' = callCount + 1
      ]_vars

\* no time has passed since the first call: the delegate returned a list
\* already cacheDuration old or older, it was stored, and each of the two
\* calls after it called the delegate again
C34_Witness ==
    /\ now = 0
    /\ cacheDuration > 0
    /\ Len(delegateLog) = 3
    /\ callCount = 3
    /\ \A i \in 1..3 : /\ delegateLog[i].err = NoErr
                       /\ now - delegateLog[i].list.FetchedAt >= cacheDuration
    /\ repoList = delegateLog[3].list
    /\ \A c \in Callers : pc[c] = "idle"

(***************************************************************************)
(* Properties of fileCachingRepoClient, checked under SpecFile.            *)
(***************************************************************************)
\* the Go records repos are what the JSON array recs says, field by field
SameRecords(repos, recs) ==
    /\ Len(repos) = Len(recs)
    /\ \A i \in DOMAIN repos :
        /\ repos[i].Name = recs[i].name
        /\ repos[i].Aliases.nil = recs[i].aliases.null
        /\ repos[i].Aliases.elems = recs[i].aliases.items

\* caller c's getRepoList and freshness check happen in this step
ReadsNow(c) == pc[c] = "reading" /\ pc'[c] # "reading"

\* caller c's call, past its read, takes a step
ActsAfterRead(c) == pc[c] \in {"fetching", "putting", "writing"} /\ pc'[c] # pc[c]

\* caller c's write of repos.json ends in this step and ListRepos returns a
\* list, the write landing in the file as c's open left it: empty
PutEndsOk(c) ==
    /\ pc[c] = "writing"
    /\ pc'[c] = "idle"
    /\ result'[c].err = NoErr
    /\ file = InvalidFile("")

\* the errors of rc.putRepoList
PutErrors == { "creating cache directory", "writing cache file" }

\* C5: a call that reads a repos.json holding a list with
\* now - fetchedAt < cacheDuration does not call the delegate, returns the
\* records and the fetchedAt of the file, and leaves the file alone.
C5_FreshFileIsAHit ==
    [][ \A c \in Callers :
          ( /\ ReadsNow(c)
            /\ file.kind = "json"
            /\ now - file.fetchedAt < cacheDuration )
          => /\ pc'[c] = "idle"
             /\ callCount' = callCount
             /\ result'[c].err = NoErr
             /\ SameRecords(result'[c].list.Repos, file.repos)
             /\ result'[c].list.FetchedAt = file.fetchedAt
             /\ file' = file
             /\ dirExists' = dirExists
      ]_vars

\* C5 witness: a call has returned the records of the earlier snapshot still
\* on disk, aliases included, and the delegate was never called.
C5_Witness ==
    /\ callCount = 0
    /\ file.kind = "json"
    /\ now - file.fetchedAt < cacheDuration
    /\ \E c \in Callers :
        /\ pc[c] = "idle"
        /\ result[c] # NoResult
        /\ result[c].err = NoErr
        /\ result[c].list.Repos = CachedCatalog
        /\ SameRecords(result[c].list.Repos, file.repos)

\* C6: a call that reads a parsable list of age >= cacheDuration calls the
\* delegate, once; when the delegate succeeds and the write goes through,
\* repos.json holds the new list and the call returns the new list, not the
\* one it read.
C6_ExpiredFileIsRefetched ==
    [][ \A c \in Callers :
          /\ ( /\ ReadsNow(c)
               /\ file.kind = "json"
               /\ now - file.fetchedAt >= cacheDuration )
             => /\ pc'[c] = "fetching"
                /\ callCount' = callCount + 1
                /\ SameRecords(cachedList'[c].Repos, file.repos)
                /\ file' = file
          /\ (ActsAfterRead(c) /\ cachedList[c] # NilRepoList)
             => callCount' = callCount
          /\ (pc[c] = "fetching" /\ pc'[c] = "putting" /\ cachedList[c] # NilRepoList)
             => /\ fetched'[c].Repos = FreshCatalog
                /\ fetched'[c].FetchedAt = now
          /\ (PutEndsOk(c) /\ cachedList[c] # NilRepoList)
             => /\ result'[c] = Returned(fetched[c], NoErr)
                /\ result'[c].list.FetchedAt >= cachedList[c].FetchedAt + cacheDuration
                /\ file'.kind = "json"
                /\ SameRecords(fetched[c].Repos, file'.repos)
                /\ file'.fetchedAt = fetched[c].FetchedAt
      ]_vars

\* C6 witness: one call found the expired snapshot, fetched once, and the
\* file now holds what it returned.
C6_Witness ==
    /\ callCount = 1
    /\ issued = 1
    /\ \E c \in Callers :
        /\ pc[c] = "idle"
        /\ cachedList[c] # NilRepoList
        /\ cachedList[c].Repos = CachedCatalog
        /\ now - cachedList[c].FetchedAt >= cacheDuration
        /\ result[c] # NoResult
        /\ result[c].err = NoErr
        /\ result[c].list.Repos = FreshCatalog
        /\ file.kind = "json"
        /\ SameRecords(result[c].list.Repos, file.repos)
        /\ file.fetchedAt = result[c].list.FetchedAt

C8_MissCreatesCache ==
    [][ \A c \in Callers :
          /\ (ReadsNow(c) /\ file.kind = "absent")
             => /\ pc'[c] = "fetching"
                /\ callCount' = callCount + 1
                /\ cachedList'[c] = NilRepoList
          /\ (ActsAfterRead(c) /\ cachedList[c] = NilRepoList)
             => callCount' = callCount
          /\ (pc[c] = "putting" /\ pc'[c] = "writing") => dirExists'
          /\ (PutEndsOk(c) /\ cachedList[c] = NilRepoList)
             => /\ dirExists'
                /\ result'[c] = Returned(fetched[c], NoErr)
                /\ getRepoList(file').err = NoErr
                /\ getRepoList(file').list.Repos = result'[c].list.Repos
                /\ getRepoList(file').list.FetchedAt = result'[c].list.FetchedAt
                /\ (now - result'[c].list.FetchedAt < cacheDuration)
                      => FileIsFresh(getRepoList(file').list, now, cacheDuration)
      ]_vars

\* C8 witness: the directory was created by this process, one call fetched
\* and returned the list, and the following call returned the same records
\* from the file without a fetch.
C8_Witness ==
    /\ dirCreated
    /\ callCount = 1
    /\ issued = 2
    /\ file.kind = "json"
    /\ \E c, d \in Callers :
        /\ c # d
        /\ pc[c] = "idle" /\ pc[d] = "idle"
        /\ cachedList[c] = NilRepoList
        /\ result[c] = Returned(RepoList(FreshCatalog, file.fetchedAt, TRUE), NoErr)
        /\ result[d] = Returned(RepoList(FreshCatalog, file.fetchedAt, FALSE), NoErr)

\* C9: when the fetch has succeeded and putRepoList fails, in MkdirAll or in
\* WriteFile (the call ends before the write, or ends with the file as it
\* was and not as a write leaves it), ListRepos returns an error that names
\* the failed step, and no list.
C9_PutFailureIsAnError ==
    [][ \A c \in Callers :
          /\ (pc[c] = "putting" /\ pc'[c] = "idle")
             => /\ result'[c].list = NilRepoList
                /\ result'[c].err \in PutErrors
          /\ ( /\ pc[c] = "writing"
               /\ pc'[c] = "idle"
               /\ file' = file
               /\ file \notin { jsonMarshal(fetched[c]), InvalidFile("torn") } )
             => /\ result'[c].list = NilRepoList
                /\ result'[c].err = "writing cache file"
      ]_vars

\* C9 witness: the one fetch succeeded, the write failed after the file was
\* emptied, and the caller holds the write error and no list.
C9_Witness ==
    /\ callCount = 1
    /\ issued = 1
    /\ file = InvalidFile("")
    /\ \E c \in Callers :
        /\ pc[c] = "idle"
        /\ result[c] = Returned(NilRepoList, "writing cache file")

\* C10: when every caller has made one call and all of them have returned a
\* list that is still fresh, with no error anywhere, and the delegate was
\* called at all, it was called exactly once.
C10_NoDuplicateFetch ==
    ( /\ issued = NumCallers
      /\ \A c \in Callers :
            /\ pc[c] = "idle"
            /\ result[c] # NoResult
            /\ result[c].err = NoErr
            /\ now - result[c].list.FetchedAt < cacheDuration
      /\ callCount >= 1 )
    => callCount = 1

\* caller c's call returns a list in this step
ReturnsListNow(c) == pc[c] # "idle" /\ pc'[c] = "idle" /\ result'[c].err = NoErr
\* caller d holds the list of a call that has returned
HoldsList(d) == pc[d] = "idle" /\ result[d] # NoResult /\ result[d].err = NoErr

\* C24: under callers that write to the lists they were handed, a call that
\* returns without a fetch returns what the delegate returned at the most
\* recent fetch that succeeded.
C24_SnapshotNotAliased ==
    [][ \A c \in Callers :
          (ChecksNow(c) /\ pc'[c] = "idle")
            => result'[c] = Returned(LastFetched(delegateLog), NoErr)
      ]_vars

\* C25: a list that a call returns has a FetchedAt no earlier than that of
\* any list a call has returned before.
C25_FetchedAtMonotonic ==
    [][ \A c, d \in Callers :
          (ReturnsListNow(c) /\ HoldsList(d))
            => result[d].list.FetchedAt <= result'[c].list.FetchedAt
      ]_vars

C31_FailedFetchLeavesDisk ==
    [][ \A c \in Callers :
          /\ (FetchEndsNow(c) /\ pc'[c] = "idle")
                => result'[c] = Returned(NilRepoList, "delegate error")
          /\ (pc[c] \in { "idle", "reading", "fetching" } /\ pc'[c] # pc[c]
                /\ pc'[c] \in { "idle", "reading", "fetching" })
                => (file' = file /\ dirExists' = dirExists /\ dirCreated' = dirCreated)
      ]_vars

\* the only call so far read an expired list, its delegate call failed, and
\* the list is still in the file, which this process has not touched
C31_Witness ==
    /\ issued = 1
    /\ callCount = 1
    /\ ~dirCreated
    /\ file.kind = "json"
    /\ now - file.fetchedAt >= cacheDuration
    /\ SameRecords(CachedCatalog, file.repos)
    /\ \A c \in Callers : pc[c] = "idle"
    /\ \E c \in Callers : result[c] = Returned(NilRepoList, "delegate error")

\* the delegate call before this step, if any, failed
LastFetchFailed == delegateLog # << >> /\ delegateLog[Len(delegateLog)].err # NoErr

\* the lists the delegate calls of this log returned
FetchedLists(log) == { log[i].list : i \in { j \in DOMAIN log : log[j].err = NoErr } }

\* the files an earlier process can have left
LeftByEarlierProcess ==
    { jsonMarshal(RepoList(CachedCatalog, t, TRUE)) : t \in (0 - PastAge)..0 }

\* C32: the list the memory decorator stores is always one that a delegate
\* call returned with no error, and a snapshot in repos.json is either the
\* one an earlier process left or the marshalling of such a list; and a call
\* that comes after a failed delegate call and finds no fresh list (stored,
\* or read from the file without error) calls the delegate again.
C32_FailuresNotCached ==
    [][ /\ repoList' # NilRepoList => repoList' \in FetchedLists(delegateLog')
        /\ file'.kind = "json"
              => \/ file' \in LeftByEarlierProcess
                 \/ file' \in { jsonMarshal(l) : l \in FetchedLists(delegateLog') }
        /\ \A c \in Callers :
              /\ (ChecksNow(c) /\ LastFetchFailed /\ ~IsFresh(repoList, now, cacheDuration))
                    => (pc'[c] = "fetching" /\ callCount' = callCount + 1)
              /\ ( /\ ReadsNow(c)
                   /\ LastFetchFailed
                   /\ getRepoList(file).err \in { NoErr, errNotFoundInCache }
                   /\ ~FileIsFresh(getRepoList(file).list, now, cacheDuration) )
                    => (pc'[c] = "fetching" /\ callCount' = callCount + 1)
      ]_vars

\* the first delegate call failed with nothing stored, the next call called
\* the delegate again, and what is stored is the list of that second call
C32_Witness ==
    /\ Len(delegateLog) = 2
    /\ delegateLog[1].err # NoErr
    /\ delegateLog[2].err = NoErr
    /\ callCount = 2
    /\ repoList = delegateLog[2].list
    /\ \A c \in Callers : pc[c] = "idle"
    /\ \E c \in Callers : result[c] = Returned(NilRepoList, delegateLog[1].err)
    /\ \E c \in Callers : result[c] = Returned(repoList, NoErr)

(***************************************************************************)
(* Properties of fixAliases and repoClient, checked under SpecCatalog.     *)
(***************************************************************************)
\* n is a key of the correction table; the value the table has for it
InTable(n) == \E f \in DOMAIN aliasesFixes : aliasesFixes[f].name = n
TableValue(n) ==
    Slice(aliasesFixes[CHOOSE f \in DOMAIN aliasesFixes : aliasesFixes[f].name = n].aliases)

\* what the records fixAliases returned hold now, aliases followed
FixedRecords == DeepRepos(SubSeq(reposArr, 1, fixed.len), strArrays)

\* the values of aliasesFixes are what the program text gives them
TableIntact ==
    \A f \in DOMAIN aliasesFixes : strArrays[<< "table", f >>] = aliasesFixes[f].aliases

\* C11: what fixAliases returns has the length, the order and the names of
\* what it was given; a record whose name is a key of the table has the
\* table's aliases (empty where the table's are) whatever it had, and its
\* other fields; a record whose name is not a key is as it was.
C11_FixAliasesCorrects ==
    cpc = "fixed" =>
        /\ Len(FixedRecords) = Len(origRepos)
        /\ \A i \in DOMAIN origRepos :
            /\ FixedRecords[i].Name = origRepos[i].Name
            /\ InTable(origRepos[i].Name)
                => FixedRecords[i] =
                     [origRepos[i] EXCEPT !.Aliases = TableValue(origRepos[i].Name)]
            /\ ~InTable(origRepos[i].Name) => FixedRecords[i] = origRepos[i]

\* C11 witness: a list with a record the table empties, though it had an
\* alias, and a record the table does not name, which kept its alias.
C11_Witness ==
    /\ cpc = "fixed"
    /\ \E i, j \in DOMAIN origRepos :
        /\ origRepos[i].Name = "argocd-repo-server"
        /\ origRepos[i].Aliases = Slice(<< "wrong-alias" >>)
        /\ FixedRecords[i].Aliases = Slice(<< >>)
        /\ origRepos[j].Name = "nginx"
        /\ FixedRecords[j].Aliases = Slice(<< "wrong-alias" >>)

\* C12: fixAliases applied to what fixAliases returned gives records equal to
\* what the first application gave.
C12_FixAliasesIdempotent ==
    cpc = "fixedTwice" =>
        /\ fixed.len = Len(onceRepos)
        /\ FixedRecords = onceRepos

\* C12 witness: the second application is over, and the first had changed
\* the aliases of a record.
C12_Witness ==
    /\ cpc = "fixedTwice"
    /\ onceRepos # origRepos
    /\ \E i \in DOMAIN onceRepos :
        /\ onceRepos[i].Aliases = Slice(<< "quay.io/argoproj/argocli" >>)
        /\ origRepos[i].Aliases = Slice(<< "wrong-alias" >>)
    /\ FixedRecords = onceRepos

\* C13: after fixAliases has returned, the records the caller handed in hold
\* what they held before the call; and whatever the caller does with the
\* records returned, the table holds what the program text gives it.
C13_FixAliasesIsPure ==
    /\ cpc \in { "fixed", "fixedTwice" } => DeepRepos(reposArr, strArrays) = origRepos
    /\ cpc # "unused" => TableIntact

\* the status is a success status; the body is one JSON document of the
\* shape of the catalog answer
SuccessStatus(st) == st \in 200..299
WellFormed(body) == body \in { "catalog", "no repos" }

\* C14: repoClient.ListRepos returns an error and no list when there is no
\* response, for every status that is not a success status and for every body
\* that is not a well-formed answer; for status 200 and a well-formed body it
\* returns the decoded records, alias correction applied, stamped with the
\* time of the call.
C14_ListReposFailsOnBadResponse ==
    [][ (cpc = "start" /\ cpc' = "listed") =>
          /\ ( \/ response' = NoResponse
               \/ ~SuccessStatus(response'.status)
               \/ ~WellFormed(response'.body) )
             => /\ listed'.list = NilRepoList
                /\ listed'.err # NoErr
          /\ ( /\ response' # NoResponse
               /\ response'.status = StatusOK
               /\ WellFormed(response'.body) )
             => /\ listed'.err = NoErr
                /\ listed'.list.FetchedAt = now
                /\ Len(listed'.list.Repos) =
                      (IF response'.body = "catalog" THEN Len(origRepos) ELSE 0)
                /\ \A i \in DOMAIN listed'.list.Repos :
                      /\ listed'.list.Repos[i].Name = origRepos[i].Name
                      /\ InTable(origRepos[i].Name)
                          => listed'.list.Repos[i] =
                               [origRepos[i] EXCEPT
                                    !.Aliases = TableValue(origRepos[i].Name)]
                      /\ ~InTable(origRepos[i].Name)
                          => listed'.list.Repos[i] = origRepos[i]
      ]_vars

(***************************************************************************)
(* Properties of MapValues, checked under SpecHelm.                        *)
(***************************************************************************)
\* the call of MapValues has ended: it returned, or it panicked
Terminated == hpc \in { "returned", "panicked" }
\* MapValues returned its output and no error
Succeeded == hpc = "returned" /\ mapValuesResult.err = NoErr
\* the image keys of a document that a chain of mappings leads to, by the
\* shape of their value
ImagePaths(doc, kind) ==
    { p \in DOMAIN doc : Len(p) > 0 /\ p[Len(p)] = "image" /\ doc[p].kind = kind }
\* the mapper has candidates for img and the first one is a reference
Maps(img) ==
    /\ Map(img).err = NoErr
    /\ Len(Map(img).Results) > 0
    /\ ParseReference(Map(img).Results[1]).err = NoErr
\* the first candidate for img, parsed
Mapped(img) == ParseReference(Map(img).Results[1])
\* the reference an image mapping stands for: registry/repository when
\* registry is a non-empty string, else repository
Lookup(doc, p) ==
    IF /\ p \o <<"registry">> \in DOMAIN doc
       /\ doc[p \o <<"registry">>].kind = "str"
       /\ doc[p \o <<"registry">>].s # EmptyString
    THEN doc[p \o <<"registry">>].s \o << "/" >> \o doc[p \o <<"repository">>].s
    ELSE doc[p \o <<"repository">>].s
\* the image mappings of a document that have a non-empty string repository
RepositoryPaths(doc) ==
    { p \in ImagePaths(doc, "map") :
        /\ p \o <<"repository">> \in DOMAIN doc
        /\ doc[p \o <<"repository">>].kind = "str"
        /\ doc[p \o <<"repository">>].s # EmptyString }

\* C15: when MapValues has ended, for every image key of the document whose
\* value is a string that maps, the output holds at the same key path the
\* first candidate's registry/repository, without the tag.
C15_ScalarFormRewritten ==
    (Terminated /\ input.kind = "mapping") =>
        \A p \in ImagePaths(input.doc, "str") :
            Maps(input.doc[p].s) =>
                /\ Succeeded
                /\ p \in DOMAIN outputValues
                /\ outputValues[p] = StrNode(RegistryStr(Mapped(input.doc[p].s))
                                             \o << "/" >>
                                             \o RepositoryStr(Mapped(input.doc[p].s)))

\* C16: when MapValues has ended, for every image mapping with a non-empty
\* string repository, the reference looked up is registry/repository if a
\* non-empty string registry is present and repository alone otherwise; if
\* it maps, the output holds registry and repository split from the mapped
\* reference when the input had a registry key, and a single repository
\* holding registry/repository of the mapped reference when it had none.
C16_MappingFormRewritten ==
    (Terminated /\ input.kind = "mapping") =>
        \A p \in RepositoryPaths(input.doc) :
            /\ << p, Lookup(input.doc, p) >> \in mapCalls
            /\ Maps(Lookup(input.doc, p)) =>
                /\ Succeeded
                /\ p \o <<"repository">> \in DOMAIN outputValues
                /\ IF p \o <<"registry">> \in DOMAIN input.doc
                   THEN /\ p \o <<"registry">> \in DOMAIN outputValues
                        /\ outputValues[p \o <<"registry">>] =
                              StrNode(RegistryStr(Mapped(Lookup(input.doc, p))))
                        /\ outputValues[p \o <<"repository">>] =
                              StrNode(RepositoryStr(Mapped(Lookup(input.doc, p))))
                   ELSE /\ p \o <<"registry">> \notin DOMAIN outputValues
                        /\ outputValues[p \o <<"repository">>] =
                              StrNode(RegistryStr(Mapped(Lookup(input.doc, p)))
                                      \o << "/" >>
                                      \o RepositoryStr(Mapped(Lookup(input.doc, p))))

\* the image fields of a document whose reference maps, and those whose
\* reference does not: Map fails, has no candidate, or has a first candidate
\* that is not a reference
MappedFields(doc) ==
    { p \in ImagePaths(doc, "str") : Maps(doc[p].s) }
    \cup { p \in RepositoryPaths(doc) : Maps(Lookup(doc, p)) }
FailedFields(doc) ==
    { p \in ImagePaths(doc, "str") : ~Maps(doc[p].s) }
    \cup { p \in RepositoryPaths(doc) : ~Maps(Lookup(doc, p)) }
\* what is to be written for a field that maps: << key path, string >>
Writes(doc, p) ==
    IF doc[p].kind = "str"
    THEN { << p, ContextString(Mapped(doc[p].s)) >> }
    ELSE IF p \o <<"registry">> \in DOMAIN doc
    THEN { << p \o <<"registry">>, RegistryStr(Mapped(Lookup(doc, p))) >>,
           << p \o <<"repository">>, RepositoryStr(Mapped(Lookup(doc, p))) >> }
    ELSE { << p \o <<"repository">>, ContextString(Mapped(Lookup(doc, p))) >> }
AllWrites(doc) == UNION { Writes(doc, p) : p \in MappedFields(doc) }
\* a field that maps lies beneath a path written for another field
Conflict(doc) ==
    \E w1 \in AllWrites(doc), w2 \in AllWrites(doc) : w1[1] # w2[1] /\ IsPrefix(w1[1], w2[1])
\* the tree that holds what is to be written for the document and no more
Overlay(doc) ==
    LET leaves == { w[1] : w \in AllWrites(doc) }
        nodes == {<< >>} \cup UNION { { SubSeq(l, 1, i) : i \in 0..Len(l) } : l \in leaves }
    IN  [q \in nodes |-> IF q \in leaves
                         THEN StrNode((CHOOSE w \in AllWrites(doc) : w[1] = q)[2])
                         ELSE MapNode]

\* C17: a path that belongs to an image field whose reference does not map
\* (its ancestors, its own key, its registry and repository) is in
\* outputValues only as a non-empty mapping that leads to a field that does
\* map; it never holds a value, empty or not.
C17_FailedFieldAbsent ==
    (input.kind = "mapping" /\ hpc # "start") =>
        \A p \in FailedFields(input.doc) :
            \A q \in { SubSeq(p, 1, i) : i \in 1..Len(p) }
                     \cup { p \o <<"registry">>, p \o <<"repository">> } :
                q \in DOMAIN outputValues =>
                    /\ outputValues[q].kind = "map"
                    /\ KeysAt(outputValues, q) # {}
                    /\ \E f \in MappedFields(input.doc) : f # p /\ IsPrefix(q, f)
\* MapValues has returned a document with a field that is written and fields
\* for which Map failed, had no candidate, had a candidate that is no reference
C17_Witness ==
    /\ Succeeded
    /\ input.kind = "mapping"
    /\ KeysAt(outputValues, << >>) # {}
    /\ \E p \in FailedFields(input.doc) :
        /\ p \notin DOMAIN outputValues
        /\ input.doc[p].kind = "str"
        /\ << p, input.doc[p].s >> \in mapCalls
        /\ input.doc[p].s \in { Unknown, Unreachable, Odd }

\* C18: when MapValues has ended on a document with an image field that does
\* not map, it has returned with no error and every field that does map is
\* in the output, whatever the order of the visits.
C18_FailureNotFatal ==
    (Terminated /\ input.kind = "mapping" /\ FailedFields(input.doc) # {}) =>
        /\ Succeeded
        /\ \A p \in MappedFields(input.doc) :
            \A w \in Writes(input.doc, p) :
                w[1] \in DOMAIN outputValues /\ outputValues[w[1]] = StrNode(w[2])

\* C19: outputValues starts empty and holds at every moment nothing but
\* what is to be written for image fields that map: every leaf is a string
\* at the key, or the registry/repository child, of such a field; there is
\* no empty mapping; the input is as it was unmarshalled; what MapValues
\* returns is outputValues marshalled.
C19_SparseOverlay ==
    (input.kind = "mapping" /\ hpc # "start") =>
        /\ inputValues = input.doc
        /\ \A q \in DOMAIN outputValues :
            IF outputValues[q].kind = "map"
            THEN q = << >> \/ KeysAt(outputValues, q) # {}
            ELSE << q, outputValues[q].s >> \in AllWrites(input.doc)
        /\ Succeeded => mapValuesResult.output = yamlMarshal(outputValues)
\* MapValues has returned a document with tag and enabled keys; the output
\* has an image and neither a tag nor an enabled key
C19_Witness ==
    /\ Succeeded
    /\ input.kind = "mapping"
    /\ <<"image", "tag">> \in DOMAIN inputValues
    /\ <<"a", "enabled">> \in DOMAIN inputValues
    /\ <<"image", "repository">> \in DOMAIN outputValues
    /\ <<"a", "image">> \in DOMAIN outputValues
    /\ \A q \in DOMAIN outputValues : q # << >> => q[Len(q)] \notin { "tag", "enabled" }

\* C20: the outcome of MapValues is a function of the document alone: in
\* whatever order the keys were visited, it has returned the overlay of the
\* document, marshalled, or, for a document with a field beneath a path
\* written for another field, it has panicked.
C20_OrderIndependent ==
    (Terminated /\ input.kind = "mapping") =>
        IF Conflict(input.doc) THEN hpc = "panicked"
        ELSE /\ Succeeded
             /\ outputValues = Overlay(input.doc)
             /\ mapValuesResult.output = yamlMarshal(Overlay(input.doc))
\* MapValues has returned after visiting the key a before the key image, and
\* has written fields in both
C20_Witness ==
    /\ Succeeded
    /\ input.kind = "mapping"
    /\ pathArrays # << >>
    /\ pathArrays[1] = << "a" >>
    /\ <<"image">> \in DOMAIN outputValues
    /\ <<"a", "image", "registry">> \in DOMAIN outputValues

\* C21: when MapValues has ended on a document in which no image field
\* maps, a document with no image key and an empty document among them, it
\* has returned no error and an output that is the empty mapping.
C21_NothingMapsEmptyOutput ==
    (Terminated /\ input.kind \in { "mapping", "empty document" }
       /\ (input.kind = "mapping" => MappedFields(input.doc) = {})) =>
        /\ hpc = "returned"
        /\ mapValuesResult.err = NoErr
        /\ outputValues = Leaf(MapNode)
        /\ mapValuesResult.output = << [indent |-> 0, key |-> "", value |-> [kind |-> "{}"]] >>
\* MapValues has returned the empty mapping for a document with image fields,
\* for each of which Map was called without result
C21_Witness ==
    /\ Succeeded
    /\ input.kind = "mapping"
    /\ outputValues = Leaf(MapNode)
    /\ FailedFields(input.doc) # {}
    /\ \A p \in FailedFields(input.doc) : \E call \in mapCalls : call[1] = p
    /\ <<"a", "image">> \in FailedFields(input.doc)
    /\ <<"image">> \in FailedFields(input.doc)

\* the image keys of a document whose value has none of the two shapes: a
\* mapping with no repository, with a repository or a registry that is not
\* a string, with an empty repository, or a value that is neither a string
\* nor a mapping
OtherShapePaths(doc) ==
    { p \in ImagePaths(doc, "map") :
        \/ p \o <<"repository">> \notin DOMAIN doc
        \/ doc[p \o <<"repository">>].kind # "str"
        \/ doc[p \o <<"repository">>].s = EmptyString
        \/ /\ p \o <<"registry">> \in DOMAIN doc
           /\ doc[p \o <<"registry">>].kind # "str" }
    \cup ImagePaths(doc, "seq") \cup ImagePaths(doc, "other")

\* C22: for an image key whose value has another shape, Map is never called,
\* and its key, its registry and its repository are in outputValues only as
\* non-empty mappings that lead to another field, one that maps.
C22_OtherShapesUntouched ==
    (input.kind = "mapping" /\ hpc # "start") =>
        \A p \in OtherShapePaths(input.doc) :
            /\ \A call \in mapCalls : call[1] # p
            /\ \A q \in { p, p \o <<"registry">>, p \o <<"repository">> } :
                q \in DOMAIN outputValues =>
                    /\ outputValues[q].kind = "map"
                    /\ \E f \in MappedFields(input.doc) : f # p /\ IsPrefix(q, f)

\* the image mappings of a document with a non-empty string repository and a
\* registry that is the empty string
EmptyRegistryPaths(doc) ==
    { p \in RepositoryPaths(doc) :
        /\ p \o <<"registry">> \in DOMAIN doc
        /\ doc[p \o <<"registry">>] = StrNode(EmptyString) }

\* C23: when MapValues has ended, for every image mapping whose registry is
\* the empty string Map was called with the repository alone, with no "/"
\* before it, and with nothing else; if that maps, the output holds the
\* registry and the repository of the mapped reference as two fields.
C23_EmptyRegistry ==
    (Terminated /\ input.kind = "mapping") =>
        \A p \in EmptyRegistryPaths(input.doc) :
            LET repository == input.doc[p \o <<"repository">>].s
            IN  /\ \A call \in mapCalls : call[1] = p => call[2] = repository
                /\ << p, repository >> \in mapCalls
                /\ << p, << "/" >> \o repository >> \notin mapCalls
                /\ Maps(repository) =>
                    /\ Succeeded
                    /\ p \o <<"registry">> \in DOMAIN outputValues
                    /\ p \o <<"repository">> \in DOMAIN outputValues
                    /\ outputValues[p \o <<"registry">>] = StrNode(RegistryStr(Mapped(repository)))
                    /\ outputValues[p \o <<"repository">>] =
                          StrNode(RepositoryStr(Mapped(repository)))

(***************************************************************************)
(* Properties of handler, checked under SpecAz.                            *)
(***************************************************************************)

\* C29: a request for which verifyAuth wrote an error (no Authorization
\* token, a token that fails verification, a subject that is not
\* webhook:<env.Group>) gets no repository-name lookup and no copy.
C29_NoCopyWithoutAuth ==
    rejected => (lookups = 0 /\ copies = << >>)

\* the codes handler itself passed to httpError, verifyAuth's one left out
OwnErrors == IF rejected THEN Tail(httpErrors) ELSE httpErrors

\* the event of the request is a push of a tag that decodes without error
IsTagPush(r) ==
    /\ r.ceType = PushedEventType
    /\ r.body.decodes
    /\ ~r.body.Error
    /\ r.body.Tag # ""
    /\ r.body.Type = "manifest"

\* C30: at most one copy is made for a request, and only for a POST whose
\* ce-type is the push event type and whose body decodes, carries no error,
\* has a tag and has type manifest; a request with another method ends with
\* 405 and nothing else, one whose body does not decode has 400 passed to
\* httpError, any other request that is not such a push ends with nothing
\* written by handler's checks; none of them is looked up or copied.
C30_CopyOnlyTagPush ==
    /\ Len(copies) <= 1
    /\ lookups <= 1
    /\ (copies # << >> \/ lookups > 0) => (request.Method = "POST" /\ IsTagPush(request))
    /\ (hstep = "done" /\ request.Method # "POST")
          => httpErrors = << StatusMethodNotAllowed >>
    /\ (hstep = "done" /\ request.Method = "POST" /\ ~IsTagPush(request))
          => OwnErrors = IF request.ceType = PushedEventType /\ ~request.body.decodes
                         THEN << StatusBadRequest >>
                         ELSE << >>
    /\ (hstep = "done" /\ request.Method = "POST" /\ IsTagPush(request))
          => /\ lookups = 1
             /\ \/ copies = << request.body.Tag >>
                \/ copies = << >> /\ OwnErrors = << StatusInternalServerError >>

\* a verified POST of a push event with a tag whose type is not manifest
\* has ended: nothing written, nothing copied
C30_Witness ==
    /\ hstep = "done"
    /\ request.Method = "POST"
    /\ ~rejected
    /\ request.ceType = PushedEventType
    /\ request.body.decodes
    /\ ~request.body.Error
    /\ request.body.Tag = "latest"
    /\ request.body.Type = "blob"
    /\ httpErrors = << >>
    /\ copies = << >>
    /\ served = 2

(***************************************************************************)
(* Properties of the Dockerfile rewriter, checked under SpecDockerfile.    *)
(***************************************************************************)

\* the aliases the FROM lines before line i of the Dockerfile declare
DeclaredBy(doc, i) ==
    { doc[j].alias : j \in { k \in 1..(i - 1) : doc[k].kind = "FROM" /\ doc[k].alias # NoAlias } }

\* C27: of the lines done so far, a FROM line whose reference is an alias
\* that an earlier FROM ... AS line of the same Dockerfile declared is
\* written as it was and is not handed to the mapper; every other FROM line
\* is handed to the mapper and written with what the mapper gave for it;
\* and the aliases known at a line are those declared in this Dockerfile,
\* none at its first line, whatever the Dockerfiles before it declared.
C27_StageReferencesSkipped ==
    /\ dpc = "scanning" => stages = DeclaredBy(dockerfile, lineNo)
    /\ \A i \in 1..Len(rewritten) :
          dockerfile[i].kind = "FROM" =>
             IF dockerfile[i].ref \in DeclaredBy(dockerfile, i)
             THEN /\ rewritten[i] = dockerfile[i]
                  /\ << i, dockerfile[i].ref >> \notin mapperArgs
             ELSE /\ << i, dockerfile[i].ref >> \in mapperArgs
                  /\ rewritten[i] = Substitute(dockerfile[i],
                        MapperMap(OptionsOf([Use |-> "dockerfile"]), DockerfileCatalog,
                                  dockerfile[i].ref))

\* the second Dockerfile, after one that declared build: FROM build before
\* any AS is mapped as an image, FROM golang:1.22 AS build is mapped, and
\* the FROM build after it is left as it was
C27_Witness ==
    /\ dpc = "returned"
    /\ documents = 2
    /\ Build \in declaredBefore
    /\ dockerfile = << From(FALSE, Build, NoAlias), From(FALSE, Golang, Build),
                       From(FALSE, Build, NoAlias) >>
    /\ mapperArgs = { << 1, Build >>, << 2, Golang >> }
    /\ rewritten[1].ref = << DefaultRepository, "/", "build" >>
    /\ rewritten[2].ref = << DefaultRepository, "/", "go" >>
    /\ rewritten[3] = dockerfile[3]

(***************************************************************************)
(* Properties of the mapper, checked under SpecMapper.                     *)
(***************************************************************************)

\* the catalog records a candidate stands for
RecordsOf(candidate) == { i \in DOMAIN catalog : catalog[i].Name = candidate[3] }

\* C28: no candidate Map returns stands for a catalog record that one of
\* the ignore functions the command asked for excludes: a FIPS record, or an
\* iamguarded one, for dockerfile and helm-values; what the flags say for
\* map.
C28_IgnoredNeverReturned ==
    mpc = "mapped" =>
       \A c \in DOMAIN mapResult.Results : \A i \in RecordsOf(mapResult.Results[c]) :
          \A f \in DOMAIN IgnoreFnsOf(command) : ~Ignores(IgnoreFnsOf(command)[f], catalog[i])

\* the dockerfile command mapped nginx over a catalog whose FIPS record has
\* the alias nginx and whose other record is nginx: only the other is given
C28_Witness ==
    /\ mpc = "mapped"
    /\ command.Use = "dockerfile"
    /\ image = << "nginx" >>
    /\ Len(catalog) = 2
    /\ catalog[1].CatalogTier = "FIPS"
    /\ catalog[1].Name = "nginx-fips"
    /\ Matches(image, catalog[1])
    /\ mapResult.Results = << << DefaultRepository, "/", "nginx" >> >>

\* the walkValues calls in progress whose path slices share a backing array
SharedArrays ==
    { << i, j >> \in (DOMAIN walkStack) \X (DOMAIN walkStack) :
        /\ i < j
        /\ walkStack[i].path.arr # 0
        /\ walkStack[i].path.arr = walkStack[j].path.arr }

\* C35: the path slice of every walkValues call in progress, read through
\* its backing array, is the sequence of keys from the root to the mapping
\* that call ranges over, so fn is always called with that sequence, though
\* append has the slices share arrays; and every key path of outputValues
\* is a key path of inputValues.
C35_PathIsKeySequence ==
    hpc \in { "walking", "returned" } =>
       /\ \A i \in DOMAIN walkStack :
             PathOf(walkStack[i].path, pathArrays) = walkStack[i].values
       /\ DOMAIN outputValues \subseteq DOMAIN inputValues

\* three levels down and deeper, two calls in progress have path slices over
\* one array, a write has been made beneath the keys n, n, n, and the walk
\* has come back up to go on with the remaining keys
C35_Witness ==
    /\ hpc = "walking"
    /\ SharedArrays # {}
    /\ << "n", "n", "n", "image", "repository" >> \in DOMAIN outputValues
    /\ << "n", "n", "image", "registry" >> \in DOMAIN outputValues
    /\ walkStack[Len(walkStack)].todo # {}

\* C36: no setValue call finds a string written earlier where its path needs
\* a mapping, so MapValues never panics, and every string in outputValues is
\* the one due for the field at its own key path, none having been replaced
\* by a write for another field.
C36_OutputConstructionNeverFails ==
    /\ hpc # "panicked"
    /\ hpc \in { "walking", "returned" } /\ input.kind = "mapping" =>
          \A q \in DOMAIN outputValues :
             outputValues[q].kind = "str" =>
                << q, outputValues[q].s >> \in AllWrites(input.doc)

\* the key paths of the document whose value is a sequence
SequencePaths == { p \in DOMAIN inputValues : inputValues[p].kind = "seq" }

\* C37: walkValues goes down through mappings only: every call of the mapper
\* is for an image key that a chain of mappings of the document leads to,
\* and neither a call of the mapper nor a path of outputValues lies beneath
\* a key whose value is a sequence, whatever the items of the sequence hold.
C37_SequencesNotEntered ==
    hpc \in { "walking", "returned", "panicked" } /\ input.kind = "mapping" =>
       /\ \A c \in mapCalls :
             /\ c[1] \in DOMAIN inputValues
             /\ \A p \in SequencePaths : ~IsPrefix(p, c[1])
       /\ \A q \in DOMAIN outputValues : \A p \in SequencePaths : ~IsPrefix(p, q)

\* MapValues has returned for a document whose containers sequence holds a
\* mapping with the image ghcr.io/a/b: that image, which maps, was looked up
\* and rewritten as the scalar beneath the key a, and every key of the root
\* was visited
C37_Witness ==
    /\ Succeeded
    /\ input.kind = "mapping"
    /\ << "containers" >> \in SequencePaths
    /\ inputValues[<< "containers" >>].items[1][<< "image" >>] = StrNode(GhcrAB)
    /\ Maps(GhcrAB)
    /\ << << "a", "image" >>, GhcrAB >> \in mapCalls
    /\ << "a", "image" >> \in DOMAIN outputValues
    /\ mapValuesResult.output = yamlMarshal(outputValues)

====
